---- MODULE Spec2Model ----
(***************************************************************************)
(* A model of four subsystems of the A.T.L.A.S assistant:                  *)
(*   - parse_email_for_meeting (src/ATLAS/tools/email/email_to_calendar.py)*)
(*   - send_email_reply        (src/tools/email/send_email.py)             *)
(*   - the memory store        (src/ATLAS/tools/memory.py)                 *)
(*   - the preference store    (src/ATLAS/tools/preferences.py,            *)
(*                              src/ATLAS/tools/manage_preferences.py)     *)
(* Text is a sequence of one-character strings; the string operations of   *)
(* the Python code (lower, find, slicing, split, strip, re.findall) are    *)
(* computed on those sequences.  A confidence is an integer number of      *)
(* hundredths (0.95 is 95): every sum of the weights 0.3, 0.3, 0.2, 0.2    *)
(* the code can form is the float nearest the decimal value.               *)
(***************************************************************************)
EXTENDS Integers, Sequences, FiniteSets, TLC

(***************************** bounds **************************************)
\* Longest generated body, in fragments of BodyFragments.
MaxBodyFrags == 2
\* Number of hash seeds an interpreter process may start with.
MaxSeed == 2
\* Number of calls of parse_email_for_meeting in one behaviour.
MaxCalls == 2
\* Number of add_conversation_context calls in one behaviour.
MaxAdds == 3
\* Largest limit, besides the default one, passed to recall_conversation_context.
MaxLimit == 2
\* Number of set_user_preference calls in one behaviour.
MaxSets == 2
\* Number of store_preference, store_user_fact and add_important_contact calls
\* in one behaviour.
MaxWrites == 2

(************************* text primitives *********************************)
MinOf(S) == CHOOSE x \in S : \A y \in S : x <= y
MaxOf(S) == CHOOSE x \in S : \A y \in S : x >= y

Digits == {"0","1","2","3","4","5","6","7","8","9"}
LowerAlpha == {"a","b","c","d","e","f","g","h","i","j","k","l","m",
               "n","o","p","q","r","s","t","u","v","w","x","y","z"}
UpperAlpha == {"A","B","C","D","E","F","G","H","I","J","K","L","M",
               "N","O","P","Q","R","S","T","U","V","W","X","Y","Z"}
Alpha == LowerAlpha \cup UpperAlpha
\* \s of the re module for str patterns, and the characters str.strip() removes
Whitespace == {" ", "\n", "\t", "\r"}
\* \w of the re module (ASCII part)
WordChars == Alpha \cup Digits \cup {"_"}

LowerMap == [A |-> "a", B |-> "b", C |-> "c", D |-> "d", E |-> "e", F |-> "f",
             G |-> "g", H |-> "h", I |-> "i", J |-> "j", K |-> "k", L |-> "l",
             M |-> "m", N |-> "n", O |-> "o", P |-> "p", Q |-> "q", R |-> "r",
             S |-> "s", T |-> "t", U |-> "u", V |-> "v", W |-> "w", X |-> "x",
             Y |-> "y", Z |-> "z"]

\* str.lower()
Lower(s) == [i \in 1..Len(s) |-> IF s[i] \in UpperAlpha THEN LowerMap[s[i]] ELSE s[i]]

\* w occurs in s at the 1-based position i
StartsAt(s, i, w) ==
    /\ i >= 1
    /\ i + Len(w) - 1 <= Len(s)
    /\ \A k \in 1..Len(w) : s[i + k - 1] = w[k]

\* str.find(w): the 0-based index of the first occurrence, -1 when there is none
Find(s, w) ==
    LET hits == {i \in 1..(Len(s) - Len(w) + 1) : StartsAt(s, i, w)}
    IN  IF hits = {} THEN -1 ELSE MinOf(hits) - 1

\* w in s
Contains(s, w) == \E i \in 1..(Len(s) - Len(w) + 1) : StartsAt(s, i, w)

\* s[a:b] for 0 <= a <= b
Slice(s, a, b) ==
    LET hi == IF b < Len(s) THEN b ELSE Len(s)
    IN  IF a + 1 > hi THEN <<>> ELSE SubSeq(s, a + 1, hi)

\* s.split('\n')[0]
FirstLine(s) ==
    LET nl == {i \in 1..Len(s) : s[i] = "\n"}
    IN  IF nl = {} THEN s ELSE Slice(s, 0, MinOf(nl) - 1)

\* str.strip()
Strip(s) ==
    LET keep == {i \in 1..Len(s) : s[i] \notin Whitespace}
    IN  IF keep = {} THEN <<>> ELSE SubSeq(s, MinOf(keep), MaxOf(keep))

\* the last index of the longest run of characters of C that starts at i (i-1: none)
RunEnd(s, i, C) ==
    LET bad == {p \in i..Len(s) : s[p] \notin C}
    IN  IF bad = {} THEN Len(s) ELSE MinOf(bad) - 1

(******************** regular expressions of the parser ********************)
\* A set of positions P holds the 1-based indexes at which matching may go on;
\* each operator returns the positions after its sub-pattern.
AllPos(s) == 1..(Len(s) + 1)
ReLit(s, P, w) == {p + Len(w) : p \in {q \in P : StartsAt(s, q, w)}}
ReSpaces0(s, P) == {q \in AllPos(s) : \E p \in P : p <= q /\ \A k \in p..(q - 1) : s[k] \in Whitespace}
ReSpaces1(s, P) == {q \in AllPos(s) : \E p \in P : p < q /\ \A k \in p..(q - 1) : s[k] \in Whitespace}
ReWord1(s, P) == {q \in AllPos(s) : \E p \in P : p < q /\ \A k \in p..(q - 1) : s[k] \in WordChars}
ReDigits(s, P, lo, hi) ==
    {q \in AllPos(s) : \E p \in P : q - p >= lo /\ q - p <= hi /\ \A k \in p..(q - 1) : s[k] \in Digits}
\* (\d{1,2}):(\d{2})
ReHourMinute(s, P) == ReDigits(s, ReLit(s, ReDigits(s, P, 1, 2), <<":">>), 2, 2)

Weekdays == { <<"m","o","n","d","a","y">>, <<"t","u","e","s","d","a","y">>, <<"w","e","d","n","e","s","d","a","y">>, <<"t","h","u","r","s","d","a","y">>, <<"f","r","i","d","a","y">>, <<"s","a","t","u","r","d","a","y">>, <<"s","u","n","d","a","y">> }

\* time_patterns[0]: (\d{1,2}):(\d{2})\s*(am|pm|a\.m\.|p\.m\.)?
TimePattern1(s) ==
    LET t == ReSpaces0(s, ReHourMinute(s, AllPos(s)))
    IN  t \cup ReLit(s, t, <<"a","m">>) \cup ReLit(s, t, <<"p","m">>)
          \cup ReLit(s, t, <<"a",".","m",".">>) \cup ReLit(s, t, <<"p",".","m",".">>)
\* time_patterns[1]: (monday|...|sunday)\s+(\d{1,2}):(\d{2})
TimePattern2(s) ==
    ReHourMinute(s, ReSpaces1(s, UNION {ReLit(s, AllPos(s), d) : d \in Weekdays}))
\* time_patterns[2]: (tomorrow|today|next\s+\w+)\s+(?:at\s+)?(\d{1,2}):(\d{2})
TimePattern3(s) ==
    LET day == ReLit(s, AllPos(s), <<"t","o","m","o","r","r","o","w">>) \cup ReLit(s, AllPos(s), <<"t","o","d","a","y">>)
                 \cup ReWord1(s, ReSpaces1(s, ReLit(s, AllPos(s), <<"n","e","x","t">>)))
        sp  == ReSpaces1(s, day)
    IN  ReHourMinute(s, sp \cup ReSpaces1(s, ReLit(s, sp, <<"a","t">>)))

\* The patterns of time_patterns that re.findall matches at least once in s.
\* (times_found is only tested for emptiness and echoed in raw_details.)
TimesFound(s) ==
    {n \in 1..3 : CASE n = 1 -> TimePattern1(s) # {}
                    [] n = 2 -> TimePattern2(s) # {}
                    [] n = 3 -> TimePattern3(s) # {}}

\* email_pattern: [a-zA-Z0-9._%+-]+@[a-zA-Z0-9.-]+\.[a-zA-Z]{2,}
LocalChars == Alpha \cup Digits \cup {".", "_", "%", "+", "-"}
DomainChars == Alpha \cup Digits \cup {".", "-"}

\* The last index of the match of email_pattern that starts at i, 0 when there is
\* none.  Greedy matching: the local part is the whole run before "@", the dot
\* taken is the last one of the domain run that two letters follow.
EmailMatchEnd(s, i) ==
    LET j == RunEnd(s, i, LocalChars)
    IN  IF j < i \/ j + 1 > Len(s) THEN 0
        ELSE IF s[j + 1] # "@" THEN 0
        ELSE LET k == RunEnd(s, j + 2, DomainChars)
                 dots == {d \in (j + 3)..(k - 2) :
                             s[d] = "." /\ s[d + 1] \in Alpha /\ s[d + 2] \in Alpha}
             IN  IF dots = {} THEN 0 ELSE RunEnd(s, MaxOf(dots) + 1, Alpha)

RECURSIVE EmailScan(_, _)
EmailScan(s, i) ==
    IF i > Len(s) THEN <<>>
    ELSE LET e == EmailMatchEnd(s, i)
         IN  IF e = 0 THEN EmailScan(s, i + 1)
             ELSE <<SubSeq(s, i, e)>> \o EmailScan(s, e + 1)

\* re.findall(email_pattern, s): the non-overlapping matches, left to right
FindAllEmails(s) == EmailScan(s, 1)

(******************* parse_email_for_meeting: constants ********************)
\* email_body[idx:idx+50]
LocationWindow == 50
\* min(0.95, ...), in hundredths
ConfidenceCap == 95
\* the weights 0.3, 0.3, 0.2, 0.2, in hundredths
TimeWeight == 30
KeywordWeight == 30
LocationWeight == 20
AttendeesWeight == 20

LocationKeywords == << <<"r","o","o","m">>, <<"c","o","n","f","e","r","e","n","c","e">>, <<"o","f","f","i","c","e">>, <<"a","t"," ">>, <<"l","o","c","a","t","i","o","n",":">>, <<"v","e","n","u","e",":">> >>
MeetingKeywords == << <<"m","e","e","t","i","n","g">>, <<"c","a","l","l">>, <<"s","y","n","c">>, <<"s","t","a","n","d","u","p">>, <<"r","e","v","i","e","w">>,
                      <<"p","r","e","s","e","n","t","a","t","i","o","n">>, <<"c","o","n","f","e","r","e","n","c","e">>, <<"w","e","b","i","n","a","r">> >>

\* Python values whose type the code mixes: has_attendees is a bool or a str
PyBool(b) == [type |-> "bool", bool |-> b]
PyStr(s) == [type |-> "str", str |-> s]
TypeErrorText == "can't multiply sequence by non-int of type 'float'"

InList(x, lst) == \E i \in 1..Len(lst) : lst[i] = x

\* the distinct elements of lst, in the order of their first occurrence
RECURSIVE Dedup(_)
Dedup(lst) ==
    IF lst = <<>> THEN <<>>
    ELSE LET front == Dedup(SubSeq(lst, 1, Len(lst) - 1))
             last  == lst[Len(lst)]
         IN  IF InList(last, front) THEN front ELSE Append(front, last)

RemoveAt(lst, i) == SubSeq(lst, 1, i - 1) \o SubSeq(lst, i + 1, Len(lst))

\* One ordering of lst for each seed: as seed runs over 0..n!-1 every permutation
\* of lst occurs (seed read in the factorial number system).
RECURSIVE PermuteBySeed(_, _)
PermuteBySeed(lst, seed) ==
    IF lst = <<>> THEN <<>>
    ELSE LET i == (seed % Len(lst)) + 1
         IN  <<lst[i]>> \o PermuteBySeed(RemoveAt(lst, i), seed \div Len(lst))

\* list(set(found)): the distinct elements in the iteration order of a set of str,
\* which the interpreter process fixes by its hash seed.
SetToList(found, seed) == PermuteBySeed(Dedup(found), seed)

(******************* parse_email_for_meeting: the steps ********************)
\* full_text = f"{email_subject}\n{email_body}".lower()
FullText(email_subject, email_body) == Lower(email_subject \o <<"\n">> \o email_body)

\* result["title"] = email_subject or "Meeting"
Title(email_subject) == IF email_subject # <<>> THEN email_subject ELSE <<"M","e","e","t","i","n","g">>

\* The loop over location_keywords from the n-th keyword on: the location it
\* stores in result["location"], <<>> when it stores none.
RECURSIVE LocationFrom(_, _, _)
LocationFrom(full_text, email_body, n) ==
    IF n > Len(LocationKeywords) THEN <<>>
    ELSE LET keyword == LocationKeywords[n]
         IN  IF ~Contains(full_text, keyword)
             THEN LocationFrom(full_text, email_body, n + 1)
             ELSE LET idx == Find(full_text, keyword)
                      location_match ==
                          Strip(FirstLine(Slice(email_body, idx, idx + LocationWindow)))
                  IN  IF location_match # <<>> THEN location_match
                      ELSE LocationFrom(full_text, email_body, n + 1)

Location(full_text, email_body) == LocationFrom(full_text, email_body, 1)

\* result["attendees"]: the de-duplicated addresses of the body, the sender put
\* in front when it is given and not among them
Attendees(email_body, email_from, seed) ==
    LET found == SetToList(FindAllEmails(email_body), seed)
    IN  IF email_from # <<>> /\ ~InList(email_from, found)
        THEN <<email_from>> \o found
        ELSE found

\* Mutant of HasAttendees: the signal set whatever the attendees are.
HasAttendeesAlways(attendees, email_from) == PyBool(TRUE)

\* has_attendees = len(result["attendees"]) > 1 or email_from
HasAttendees(attendees, email_from) ==
    IF Len(attendees) > 1 THEN PyBool(TRUE) ELSE PyStr(email_from)

\* has_meeting_keyword = any(kw in full_text for kw in meeting_keywords)
HasMeetingKeyword(full_text) ==
    \E n \in 1..Len(MeetingKeywords) : Contains(full_text, MeetingKeywords[n])

\* result["meeting_found"] = has_time or (has_meeting_keyword and has_location)
MeetingFound(has_time, has_meeting_keyword, has_location) ==
    has_time \/ (has_meeting_keyword /\ has_location)

Times(w, b) == IF b THEN w ELSE 0

\* Mutant of Confidence: the sum returned without the cap of min(0.95, ...).
ConfidenceUncapped(has_time, has_meeting_keyword, has_location, has_attendees) ==
    Times(TimeWeight, has_time) + Times(KeywordWeight, has_meeting_keyword)
      + Times(LocationWeight, has_location) + Times(AttendeesWeight, has_attendees)

\* min(0.95, 0.3*has_time + 0.3*has_meeting_keyword + 0.2*has_location + 0.2*has_attendees)
\* for bool operands
Confidence(has_time, has_meeting_keyword, has_location, has_attendees) ==
    LET sum == Times(TimeWeight, has_time) + Times(KeywordWeight, has_meeting_keyword)
                 + Times(LocationWeight, has_location) + Times(AttendeesWeight, has_attendees)
    IN  IF sum < ConfidenceCap THEN sum ELSE ConfidenceCap

\* The signals of one call, as the try block computes them.
Signals(email_subject, email_body, email_from, seed) ==
    LET full_text == FullText(email_subject, email_body)
        location  == Location(full_text, email_body)
        attendees == Attendees(email_body, email_from, seed)
    IN  [times_found |-> TimesFound(full_text),
         location |-> location,
         attendees |-> attendees,
         has_time |-> TimesFound(full_text) # {},
         has_location |-> Len(location) > 0,
         has_attendees |-> HasAttendees(attendees, email_from),
         has_meeting_keyword |-> HasMeetingKeyword(full_text)]

\* Mutant of TryBlock: has_attendees is taken by its truth value, so that
\* line 108 never raises.
TryBlockTruthValue(email_subject, email_body, email_from, seed) ==
    LET g == Signals(email_subject, email_body, email_from, seed)
        has_attendees == IF g.has_attendees.type = "bool"
                         THEN g.has_attendees.bool
                         ELSE g.has_attendees.str # <<>>
    IN  [kind |-> "return",
         value |-> [success |-> TRUE,
                    meeting_found |-> MeetingFound(g.has_time, g.has_meeting_keyword, g.has_location),
                    title |-> Title(email_subject),
                    start_time |-> <<>>,
                    end_time |-> <<>>,
                    attendees |-> g.attendees,
                    location |-> g.location,
                    notes |-> <<>>,
                    confidence |-> Confidence(g.has_time, g.has_meeting_keyword,
                                              g.has_location, has_attendees),
                    error |-> "",
                    raw_details |-> [times_found |-> g.times_found,
                                     location_found |-> g.has_location,
                                     attendees_count |-> Len(g.attendees),
                                     meeting_keyword_found |-> g.has_meeting_keyword]]]

\* The try block: the record it returns, or the exception it raises.  0.2 * str
\* is a TypeError.
TryBlock(email_subject, email_body, email_from, seed) ==
    LET g == Signals(email_subject, email_body, email_from, seed)
    IN  IF g.has_attendees.type # "bool"
        THEN [kind |-> "raise", exc |-> TypeErrorText]
        ELSE [kind |-> "return",
              value |-> [success |-> TRUE,
                         meeting_found |-> MeetingFound(g.has_time, g.has_meeting_keyword, g.has_location),
                         title |-> Title(email_subject),
                         start_time |-> <<>>,
                         end_time |-> <<>>,
                         attendees |-> g.attendees,
                         location |-> g.location,
                         notes |-> <<>>,
                         confidence |-> Confidence(g.has_time, g.has_meeting_keyword,
                                                   g.has_location, g.has_attendees.bool),
                         error |-> "",
                         raw_details |-> [times_found |-> g.times_found,
                                          location_found |-> g.has_location,
                                          attendees_count |-> Len(g.attendees),
                                          meeting_keyword_found |-> g.has_meeting_keyword]]]

NoRawDetails == [times_found |-> {}, location_found |-> FALSE,
                 attendees_count |-> 0, meeting_keyword_found |-> FALSE]

\* Mutant of ExceptHandler: the exception is raised again, not turned into a record.
ExceptHandlerReraise(exc) == [kind |-> "raise", exc |-> exc]

\* except Exception as e: return {...}
ExceptHandler(exc) ==
    [kind |-> "return",
     value |-> [success |-> FALSE,
                meeting_found |-> FALSE,
                title |-> <<>>,
                start_time |-> <<>>,
                end_time |-> <<>>,
                attendees |-> <<>>,
                location |-> <<>>,
                notes |-> <<>>,
                confidence |-> 0,
                error |-> exc,
                raw_details |-> NoRawDetails]]

\* parse_email_for_meeting: how the call ends
ParseEmailForMeeting(email_subject, email_body, email_from, seed) ==
    LET t == TryBlock(email_subject, email_body, email_from, seed)
    IN  IF t.kind = "raise" THEN ExceptHandler(t.exc) ELSE t

(******************* parse_email_for_meeting: the inputs *******************)
RECURSIVE Flatten(_)
Flatten(parts) == IF parts = <<>> THEN <<>> ELSE Head(parts) \o Flatten(Tail(parts))

BodyFragments == { <<"a","t"," ">>, <<"3",":","0","0","p","m"," ">>, <<"R","o","o","m"," ","B">>, <<"a","@","x",".","c","o"," ">>, <<"b","@","y",".","i","o">>, <<"\n">>, <<"c","a","l","l"," ">> }
SubjectChoices == { <<>>, <<"S","y","n","c">>, <<"R","o","o","m">> }
SenderChoices == { <<>>, <<"s","@","z",".","o","r","g">>, <<"a","@","x",".","c","o">> }

GeneratedBodies ==
    {Flatten(fs) : fs \in UNION {[1..n -> BodyFragments] : n \in 0..MaxBodyFrags}}

\* The worked example of the specification, section 8.
TeamSyncSubject == <<"T","e","a","m"," ","S","y","n","c">>
TeamSyncBody == <<"L","e","t","'","s"," ","m","e","e","t"," ","t","o","m","o","r","r","o","w"," ","a","t"," ","3",":","0","0","p","m"," ","i","n"," ","C","o","n","f","e","r","e","n","c","e"," ","R","o","o","m"," ","B","."," ","A","t","t","e","n","d","e","e","s",":"," ","a","@","x",".","c","o","m",","," ","b","@","x",".","c","o","m">>
\* Examples of the function's docstring ("Examples of what it detects").
DocstringBodies == { <<"M","e","e","t","i","n","g"," ","o","n"," ","F","r","i","d","a","y"," ","2","p","m"," ","a","t"," ","C","o","n","f","e","r","e","n","c","e"," ","R","o","o","m"," ","A">>,
                     <<"L","e","t","'","s"," ","m","e","e","t"," ","n","e","x","t"," ","T","u","e","s","d","a","y"," ","1","0",":","0","0"," ","A","M"," ","E","S","T">>,
                     <<"C","a","n"," ","y","o","u"," ","j","o","i","n"," ","t","h","e"," ","c","a","l","l"," ","a","t"," ","3",":","3","0","p","m","?">>,
                     <<"A","t","t","e","n","d","e","e","s",":"," ","j","o","h","n","@","c","o","m","p","a","n","y",".","c","o","m",","," ","j","a","n","e","@","c","o","m","p","a","n","y",".","c","o","m">> }

\* An email whose last words name the location.
WeeklySyncSubject == <<"W","e","e","k","l","y"," ","S","y","n","c">>
WeeklySyncBody == <<"a","@","x",".","c","o","m"," ","b","@","x",".","c","o","m"," ","m","e","e","t"," ","a","t"," ","t","h","e"," ","o","f","f","i","c","e">>

ParseInputs ==
    (SubjectChoices \X GeneratedBodies \X SenderChoices)
      \cup {<<TeamSyncSubject, TeamSyncBody, <<>> >>}
      \cup {<<WeeklySyncSubject, WeeklySyncBody, <<>> >>}
      \cup ({<<>>} \X DocstringBodies \X {<<>>})

(******************************* state *************************************)
VARIABLES
    email_subject,   \* the arguments of the calls of parse_email_for_meeting
    email_body,
    email_from,
    hashSeed,        \* the str hash seed of the running interpreter process
    calls,           \* calls of parse_email_for_meeting made so far
    outcome,         \* how the latest call ended
    prevOutcome,     \* how the call before it ended
    thread_or_message_id,  \* the argument of send_email_reply
    rpc,             \* the position of send_email_reply
    original_msg,    \* its locals
    thread_id,
    original_sender,
    reply_subject,
    caught,          \* e of "except Exception as e"
    log,             \* the calls made to the mail provider, in order
    replyOutcome,    \* how send_email_reply ended
    memory_file,     \* the file user_memory.json
    now,             \* the clock read by datetime.now()
    added,           \* the conversation entries added so far, oldest first
    memResult,       \* the latest call of the memory store and what it returned
    memBefore,       \* the file as the latest call of the memory store found it
    memCall,         \* the latest call of a tool that writes the memory document
    prefs_file,      \* the file preferences.json
    sets,            \* calls of set_user_preference made so far
    lastSet,         \* the latest call of set_user_preference and what it returned
    prefResult,      \* the latest call of a preference tool and what it returned
    callers          \* the callers that use the stores at the same time

parseVars == <<email_subject, email_body, email_from, hashSeed, calls, outcome, prevOutcome>>
replyVars == <<thread_or_message_id, rpc, original_msg, thread_id, original_sender,
               reply_subject, caught, log, replyOutcome>>
memoryVars == <<memory_file, now, added, memResult, memBefore, memCall>>
prefsVars == <<prefs_file, sets, lastSet, prefResult>>
raceVars == <<callers>>
storeVars == <<memoryVars, prefsVars, raceVars>>
vars == <<parseVars, replyVars, storeVars>>

(************************ send_email_reply: data ***************************)
\* An optional str is <<>> (None) or <<s>>; an absent identifier is NoneTok.
None == <<>>
Some(s) == <<s>>
NoneTok == "None"
\* Python truth of an optional str: neither None nor ""
Truthy(o) == o # None /\ o[1] # <<>>

\* A message resource as messages().get(format='raw') returns it.  empty: the
\* dict is {}; decodable: urlsafe_b64decode accepts its raw; headers: the
\* From, Subject and Message-ID of the decoded message.
Message(threadId, hasRaw, decodable, from, subject, messageId) ==
    [isNone |-> FALSE, empty |-> FALSE, threadId |-> threadId, hasRaw |-> hasRaw,
     decodable |-> decodable, From |-> from, Subject |-> subject, MessageID |-> messageId]
NoHeaders(threadId, hasRaw, decodable) == Message(threadId, hasRaw, decodable, None, None, NoneTok)
EmptyDict == [NoHeaders(NoneTok, FALSE, FALSE) EXCEPT !.empty = TRUE]
NoMessage == [NoHeaders(NoneTok, FALSE, FALSE) EXCEPT !.isNone = TRUE]
\* not original_msg
Falsy(msg) == msg.isNone \/ msg.empty

ThreadIds == {"thread-A", "thread-B", NoneTok}
FromHeaders == {None, Some(<<>>), Some(<<"A","l","i","c","e"," ","<","a","@","x",".","c","o",">">>), Some(<<"a","@","x",".","c","o">>), Some(<<"<",">">>)}
SubjectHeaders == {None, Some(<<"B","u","d","g","e","t">>), Some(<<"R","E",":"," ","B","u","d","g","e","t">>), Some(<<"R","e">>),
                   Some(<<"r","e",":","o","k">>)}
MessageIdHeaders == {NoneTok, "<msg-1@mail>"}

\* What messages().get may return.
MessageResponses ==
    {EmptyDict}
      \cup {NoHeaders(t, FALSE, FALSE) : t \in ThreadIds}
      \cup {NoHeaders(t, TRUE, FALSE) : t \in ThreadIds}
      \cup {Message(t, TRUE, TRUE, f, s, m) :
               t \in ThreadIds, f \in FromHeaders, s \in SubjectHeaders, m \in MessageIdHeaders}

\* What threads().get may return: its id and the ids of its messages.
ThreadResponses ==
    {[id |-> t, messages |-> ms] : t \in ThreadIds, ms \in {<<>>, <<"msg-first">>, <<"msg-first", "msg-second">>}}

Identifiers == {"id-17", "id-42"}
MessageBody == "Thanks, see you then."
\* str(e) of the exceptions the provider raises
ProviderErrors == {"HttpError 403", "TimeoutError"}
DecodeError == "Incorrect padding"
ServiceError == "FileNotFoundError: credentials.json"

\* email.utils.parseaddr(sender)[1] on the From headers above: the text between
\* "<" and ">" when there is one, else the whole text, stripped
ParseAddr(sender) ==
    LET lt == Find(sender, <<"<">>)
        gt == Find(sender, <<">">>)
    IN  IF lt >= 0 /\ gt > lt THEN Strip(Slice(sender, lt + 1, gt)) ELSE Strip(sender)

\* parseaddr(original_sender)[1]; parseaddr(None) is ('', '')
Recipient(sender) == IF sender = None THEN <<>> ELSE ParseAddr(sender[1])

\* what a header or an f-string shows of an optional str
HeaderText(o) == IF o = None THEN <<>> ELSE o[1]
FormatText(o) == IF o = None THEN <<"N","o","n","e">> ELSE o[1]

\* Mutant of HasReplyPrefix: the prefix compared without lowering the subject.
HasReplyPrefixCaseSensitive(original_subject) == StartsAt(original_subject, 1, <<"r","e",":">>)

\* original_subject.lower().startswith('re:')
HasReplyPrefix(original_subject) == StartsAt(Lower(original_subject), 1, <<"r","e",":">>)

\* Mutant of ReplySubject: the prefix joined to the subject without the space.
ReplySubjectNoSpace(subjectHeader) ==
    LET original_subject == IF subjectHeader = None THEN <<>> ELSE subjectHeader[1]
    IN  IF original_subject # <<>> /\ ~HasReplyPrefix(original_subject)
        THEN <<"R","e",":">> \o original_subject
        ELSE IF original_subject # <<>> THEN original_subject ELSE <<"R","e",":">>

\* lines 59-64: original_subject = get('Subject', ''), then the reply subject
ReplySubject(subjectHeader) ==
    LET original_subject == IF subjectHeader = None THEN <<>> ELSE subjectHeader[1]
    IN  IF original_subject # <<>> /\ ~HasReplyPrefix(original_subject)
        THEN <<"R","e",":"," ">> \o original_subject
        ELSE IF original_subject # <<>> THEN original_subject ELSE <<"R","e",":">>

\* Mutant of SenderMissing: the check of the sender left out.
SenderMissingNever(sender) == FALSE

\* if not original_sender: the not-found return is taken
SenderMissing(sender) == ~Truthy(sender)

\* The body of a messages().send request: the headers and text of the MIME
\* message in 'raw' and the threadId (NoneTok: the key is not set).
MessageData(to, subject, inReplyTo, references, text, threadId) ==
    [To |-> to, Subject |-> subject, InReplyTo |-> inReplyTo, References |-> references,
     text |-> text, threadId |-> threadId]
NoData == MessageData(<<>>, <<>>, NoneTok, NoneTok, "", NoneTok)

\* Mutant of PrimaryData: the thread id of the lookups left out of the request.
PrimaryDataUnthreaded(msg, sender, subject, threadId) ==
    MessageData(Recipient(sender), HeaderText(subject), msg.MessageID, msg.MessageID, MessageBody,
                NoneTok)

\* lines 77-100: the reply sent first
PrimaryData(msg, sender, subject, threadId) ==
    MessageData(Recipient(sender), HeaderText(subject), msg.MessageID, msg.MessageID, MessageBody,
                IF threadId # NoneTok THEN threadId ELSE NoneTok)

\* Mutant of FallbackData: the thread and the Message-ID of the original kept.
FallbackDataThreaded(sender, subject) ==
    MessageData(Recipient(sender), IF Truthy(subject) THEN subject[1] ELSE <<"R","e",":"," ">>,
                original_msg.MessageID, original_msg.MessageID, MessageBody, thread_id)

\* lines 111-116: the new message sent after a failure
FallbackData(sender, subject) ==
    MessageData(Recipient(sender), IF Truthy(subject) THEN subject[1] ELSE <<"R","e",":"," ">>,
                NoneTok, NoneTok, MessageBody, NoneTok)

\* One entry of the log of provider calls; found is the thread id that the
\* response of a lookup carries (threadId of a message, id of a thread).
GetEntry(call, id, ok) ==
    [call |-> call, id |-> id, ok |-> ok, mode |-> "", data |-> NoData, found |-> NoneTok]
SendEntry(mode, data, ok) ==
    [call |-> "messages.send", id |-> "", ok |-> ok, mode |-> mode, data |-> data, found |-> NoneTok]
FoundEntry(call, id, found) == [GetEntry(call, id, TRUE) EXCEPT !.found = found]

\* A result text: its literal pieces (lit), the character strings put into it
\* (chars) and the error strings put into it (err), in order.
Lit(s) == [k |-> "lit", s |-> s, chars |-> <<>>]
Chars(cs) == [k |-> "chars", s |-> "", chars |-> cs]
Err(e) == [k |-> "err", s |-> e, chars |-> <<>>]

NoServiceText == << Lit("ERROR: Could not connect to Gmail service.") >>
NotFoundText ==
    << Lit("ERROR: Original message or thread not found or not accessible. I can instead send a new email to the sender if you provide their address.") >>
SuccessText(recipient, subject) ==
    << Lit("Successfully sent reply to '"), Chars(recipient), Lit("' with subject '"),
       Chars(subject), Lit("'.") >>
\* Mutant of FallbackSentText: the error of the primary send left out.
FallbackSentTextNoError(recipient, e) ==
    << Lit("Primary reply failed but a new message was sent to "), Chars(recipient), Lit(".") >>

FallbackSentText(recipient, e) ==
    << Lit("Primary reply failed but a new message was sent to "), Chars(recipient),
       Lit(". Error: "), Err(e) >>
BothFailedText(e, e2) ==
    << Lit("An error occurred while sending the email reply: "), Err(e),
       Lit(". Fallback also failed: "), Err(e2) >>
FailedText(e) ==
    << Lit("An error occurred while sending the email reply: "), Err(e), Lit(".") >>

Return(text) == [kind |-> "return", text |-> text, exc |-> ""]
Raise(e) == [kind |-> "raise", text |-> <<>>, exc |-> e]
Running == [kind |-> "none", text |-> <<>>, exc |-> ""]

(************************** the memory store: data **************************)
\* the number of conversation entries kept, the default limit of a recall and
\* the default topic of an entry
ContextCap == 50
DefaultLimit == 10
DefaultTopic == "general"

\* The default structure of the memory document ({} and [] are both <<>>).
DefaultMemory ==
    [preferences_memory |-> <<>>, conversation_context |-> <<>>, user_facts |-> <<>>,
     meeting_patterns |-> <<>>, email_patterns |-> <<>>, important_contacts |-> <<>>,
     version |-> 1]

\* The file: missing, holding a JSON document ("ok"), or not readable as one.
StoredFile(memory) == [status |-> "ok", doc |-> memory]
MissingFile == [status |-> "missing", doc |-> DefaultMemory]
CorruptFile == [status |-> "corrupt", doc |-> DefaultMemory]

\* _ensure_memory_file(): a missing file is created with the default structure
EnsureMemoryFile(file) == IF file.status = "missing" THEN StoredFile(DefaultMemory) ELSE file

\* load_memory(): the document of the file, the default structure when reading
\* or parsing the file raises
LoadMemory(file) ==
    LET f == EnsureMemoryFile(file)
    IN  IF f.status = "ok" THEN f.doc ELSE DefaultMemory

\* save_memory(memory): the file rewritten with the document
SaveMemory(memory) == StoredFile(memory)

\* lst[-n:] of Python: the last n elements for n > 0, the whole list for
\* n = 0 (-0 is 0), the elements from index -n on for n < 0
LastSlice(lst, n) ==
    LET start == IF n > 0 THEN MaxOf({Len(lst) - n, 0}) ELSE MinOf({0 - n, Len(lst)})
    IN  SubSeq(lst, start + 1, Len(lst))

\* list.reverse()
Reverse(lst) == [i \in 1..Len(lst) |-> lst[Len(lst) + 1 - i]]

\* One entry of the conversation log.
ContextEntry(role, content, topic, timestamp) ==
    [role |-> role, content |-> content, topic |-> topic, timestamp |-> timestamp]

\* Mutant of TrimContext: the oldest entries kept instead of the latest.
TrimContextKeepOldest(context) ==
    IF Len(context) > ContextCap THEN SubSeq(context, 1, ContextCap) ELSE context

\* lines 304-306: only the last 50 messages are kept
TrimContext(context) ==
    IF Len(context) > ContextCap THEN LastSlice(context, ContextCap) ELSE context

\* lines 295-306: the document with the entry appended
WithContext(memory, entry) ==
    [memory EXCEPT !.conversation_context = TrimContext(Append(memory.conversation_context, entry))]

\* "if topic": a topic was passed (None and '' are falsy)
TopicGiven(topic) == topic \notin {NoneTok, ""}

\* lines 333-340: the entries recalled
RecallContext(memory, topic, limit) ==
    LET all == memory.conversation_context
        context == IF TopicGiven(topic) THEN SelectSeq(all, LAMBDA c : c.topic = topic) ELSE all
    IN  Reverse(LastSlice(context, limit))

\* The arguments of the calls.
Roles == {"user", "assistant"}
Contents == {"Move the sync to 3pm"}
Topics == {DefaultTopic, "budget"}
TopicFilters == {NoneTok, ""} \cup Topics
Limits == (0..MaxLimit) \cup {DefaultLimit}

\* The log a file written by earlier calls holds: its n latest entries, with
\* timestamps before the clock of this behaviour.
EarlierEntry(i) ==
    ContextEntry(IF i % 2 = 0 THEN "user" ELSE "assistant", "earlier message",
                 IF i % 3 = 0 THEN "budget" ELSE DefaultTopic, i - ContextCap)
EarlierLog(n) == [i \in 1..n |-> EarlierEntry(ContextCap - n + i)]
EarlierLengths == {0, 2, ContextCap - 1, ContextCap}
InitialMemoryFiles ==
    {MissingFile, CorruptFile}
      \cup {StoredFile([DefaultMemory EXCEPT !.conversation_context = EarlierLog(n)]) :
                n \in EarlierLengths}

\* The file holds a document but reading it raises (open or json.load: no read
\* permission, a damaged byte); writing it succeeds.
UnreadableFile(memory) == [status |-> "unreadable", doc |-> memory]

\* k in d, d[k] and d[k] = x of a dict of the document, held as the list of its
\* (key, value) pairs in insertion order
DictHas(d, k) == \E i \in 1..Len(d) : d[i][1] = k
DictGet(d, k) == d[CHOOSE i \in 1..Len(d) : d[i][1] = k][2]
DictSet(d, k, x) ==
    IF DictHas(d, k)
    THEN [i \in 1..Len(d) |-> IF d[i][1] = k THEN <<k, x>> ELSE d[i]]
    ELSE Append(d, <<k, x>>)

\* lines 82-89 of store_preference: the document with the preference stored
WithPreference(memory, key, value, category, timestamp) ==
    LET stored == memory.preferences_memory
        old == IF DictHas(stored, category) THEN DictGet(stored, category) ELSE <<>>
        entry == [value |-> value, stored_at |-> timestamp, category |-> category]
    IN  [memory EXCEPT !.preferences_memory = DictSet(stored, category, DictSet(old, key, entry))]

\* lines 190-193 of store_user_fact: the document with the fact stored
WithFact(memory, key, value, timestamp) ==
    [memory EXCEPT !.user_facts = DictSet(@, key, [value |-> value, stored_at |-> timestamp])]

\* One important contact.
Contact(email, name, relationship, timestamp) ==
    [email |-> email, name |-> name, relationship |-> relationship, added_at |-> timestamp]

\* any(c["email"] == email for c in memory["important_contacts"])
HasContact(memory, email) ==
    \E i \in 1..Len(memory.important_contacts) : memory.important_contacts[i].email = email

\* Mutant of WithContact: the contact appended whether or not its email is held.
WithContactAlways(memory, contact) ==
    [memory EXCEPT !.important_contacts = Append(@, contact)]

\* lines 250-252 of add_important_contact: the contact appended unless one with
\* its email is held
WithContact(memory, contact) ==
    IF HasContact(memory, contact.email)
    THEN memory
    ELSE [memory EXCEPT !.important_contacts = Append(@, contact)]

\* The arguments of the write calls.
PreferenceNames == {"email_style", "meeting_duration"}
Categories == {DefaultTopic, "email"}
FactNames == {"role", "team"}
StoredValues == {"formal"}
ContactEmails == {"boss@x.co", "client@y.io"}
ContactNames == {"", "Bob"}
Relationships == {"client"}

\* A document written by earlier calls, with an entry in every section the
\* tools write.
EarlierMemory ==
    [DefaultMemory EXCEPT
        !.preferences_memory =
            << <<DefaultTopic, << <<"email_style", [value |-> "brief", stored_at |-> 0 - 3,
                                                    category |-> DefaultTopic]>> >> >> >>,
        !.user_facts = << <<"role", [value |-> "engineer", stored_at |-> 0 - 2]>> >>,
        !.important_contacts = << Contact("boss@x.co", "Ann", "boss", 0 - 1) >>,
        !.conversation_context = EarlierLog(2)]
InitialWriteFiles ==
    InitialMemoryFiles \cup {StoredFile(EarlierMemory), UnreadableFile(EarlierMemory)}

\* A call of a tool that writes the memory document: its arguments, the
\* timestamp it took and the success it reported.
WriteCall(op, timestamp) ==
    [op |-> op, timestamp |-> timestamp, success |-> TRUE, key |-> "", value |-> "",
     category |-> "", email |-> "", name |-> "", relationship |-> "",
     role |-> "", content |-> "", topic |-> ""]
NoCall == [WriteCall("none", 0) EXCEPT !.success = FALSE]

\* the document with the entry of the call written, and nothing else changed
WithEntryOf(memory, call) ==
    CASE call.op = "store_preference" ->
            WithPreference(memory, call.key, call.value, call.category, call.timestamp)
      [] call.op = "store_user_fact" -> WithFact(memory, call.key, call.value, call.timestamp)
      [] call.op = "add_important_contact" ->
            WithContact(memory, Contact(call.email, call.name, call.relationship, call.timestamp))
      [] call.op = "add_conversation_context" ->
            WithContext(memory, ContextEntry(call.role, call.content, call.topic, call.timestamp))

\* What a call of the memory store returned.
MemResult(op, topic, limit, context) ==
    [op |-> op, success |-> TRUE, topic |-> topic, limit |-> limit,
     context |-> context, count |-> Len(context)]
NoMemResult == [MemResult("none", NoneTok, 0, <<>>) EXCEPT !.success = FALSE]

\* The state in which no call of the memory store was made.
MemoryIdle ==
    /\ memory_file = MissingFile
    /\ now = 0
    /\ added = <<>>
    /\ memResult = NoMemResult
    /\ memBefore = MissingFile
    /\ memCall = NoCall

(************************ the preference store: data ************************)
\* A JSON value: a str, a bool, an int, a list of values, or a dict, which is
\* the list of its (key, value) pairs in insertion order.
JStr(s) == [t |-> "str", v |-> s]
JBool(b) == [t |-> "bool", v |-> b]
JInt(n) == [t |-> "int", v |-> n]
JList(items) == [t |-> "list", v |-> items]
JDict(pairs) == [t |-> "dict", v |-> pairs]
\* an exception raised while a value is computed
Raised(exc) == [t |-> "raise", v |-> exc]

\* get_default_preferences()
DefaultPreferences ==
    JDict(<< <<<<"u","s","e","r","_","e","m","a","i","l">>, JStr(<<"a","d","i","t","h","y","a","a","s","a","r","a","v","a","n","a","n",".","c","s","e","2","0","2","3","@","c","i","t","c","h","e","n","n","a","i",".","n","e","t">>)>>,
            <<<<"w","o","r","k","_","h","o","u","r","s">>,
              JDict(<< <<<<"s","t","a","r","t">>, JStr(<<"0","9",":","0","0">>)>>, <<<<"e","n","d">>, JStr(<<"1","7",":","0","0">>)>> >>)>>,
            <<<<"a","v","a","i","l","a","b","i","l","i","t","y">>,
              JDict(<< <<<<"m","o","n","d","a","y">>, JBool(TRUE)>>, <<<<"t","u","e","s","d","a","y">>, JBool(TRUE)>>,
                      <<<<"w","e","d","n","e","s","d","a","y">>, JBool(TRUE)>>, <<<<"t","h","u","r","s","d","a","y">>, JBool(TRUE)>>,
                      <<<<"f","r","i","d","a","y">>, JBool(TRUE)>>, <<<<"s","a","t","u","r","d","a","y">>, JBool(FALSE)>>,
                      <<<<"s","u","n","d","a","y">>, JBool(FALSE)>> >>)>>,
            <<<<"p","r","e","f","e","r","r","e","d","_","m","e","e","t","i","n","g","_","d","u","r","a","t","i","o","n","_","m","i","n","u","t","e","s">>, JInt(30)>>,
            <<<<"b","u","s","y","_","k","e","y","w","o","r","d","s">>,
              JList(<< JStr(<<"b","u","s","y">>), JStr(<<"m","e","e","t","i","n","g">>), JStr(<<"u","n","a","v","a","i","l","a","b","l","e">>) >>)>>,
            <<<<"a","u","t","o","_","r","e","p","l","y","_","p","r","e","f","e","r","e","n","c","e","s">>,
              JDict(<< <<<<"d","r","a","f","t","_","r","e","p","l","i","e","s">>, JBool(TRUE)>>, <<<<"a","u","t","o","_","s","u","g","g","e","s","t","_","t","i","m","e","s">>, JBool(TRUE)>>,
                      <<<<"i","n","c","l","u","d","e","_","c","a","l","e","n","d","a","r","_","c","h","e","c","k">>, JBool(TRUE)>> >>)>>,
            <<<<"e","m","a","i","l","_","s","i","g","n","a","t","u","r","e">>, JStr(<<"B","e","s","t"," ","r","e","g","a","r","d","s",",","\n","Y","o","u","r"," ","A","s","s","i","s","t","a","n","t">>)>> >>)

\* k in d, d[k] and d[k] = x of a dict
HasKey(d, k) == \E i \in 1..Len(d.v) : d.v[i][1] = k
GetItem(d, k) == d.v[CHOOSE i \in 1..Len(d.v) : d.v[i][1] = k][2]
SetItem(d, k, x) ==
    IF HasKey(d, k)
    THEN JDict([i \in 1..Len(d.v) |-> IF d.v[i][1] = k THEN <<k, x>> ELSE d.v[i]])
    ELSE JDict(Append(d.v, <<k, x>>))

\* key.split(".")
RECURSIVE Split(_)
Split(key) ==
    LET dot == Find(key, <<".">>)
    IN  IF dot < 0 THEN <<key>>
        ELSE <<Slice(key, 0, dot)>> \o Split(Slice(key, dot + 1, Len(key)))

\* Mutant of SetNested: a missing intermediate level is not created.
RECURSIVE SetNestedNoCreate(_, _, _)
SetNestedNoCreate(current, keys, value) ==
    IF current.t # "dict" THEN Raised("TypeError")
    ELSE IF Len(keys) = 1 THEN SetItem(current, keys[1], value)
    ELSE IF ~HasKey(current, Head(keys)) THEN current
    ELSE LET below == SetNestedNoCreate(GetItem(current, Head(keys)), Tail(keys), value)
         IN  IF below.t = "raise" THEN below ELSE SetItem(current, Head(keys), below)

\* lines 31-38 of set_user_preference: the walk along keys[:-1], creating the
\* missing levels, and the assignment of keys[-1]. On a level that is not a
\* dict the "in" test, the indexing or the item assignment raises TypeError.
RECURSIVE SetNested(_, _, _)
SetNested(current, keys, value) ==
    IF current.t # "dict" THEN Raised("TypeError")
    ELSE IF Len(keys) = 1 THEN SetItem(current, keys[1], value)
    ELSE LET k == Head(keys)
             child == IF HasKey(current, k) THEN GetItem(current, k) ELSE JDict(<<>>)
             below == SetNested(child, Tail(keys), value)
         IN  IF below.t = "raise" THEN below ELSE SetItem(current, k, below)

\* lines 65-69 of get_user_preference: current = current.get(k, {}) for each
\* key; a level that is not a dict has no get and raises AttributeError
RECURSIVE GetNested(_, _)
GetNested(current, keys) ==
    IF keys = <<>> THEN current
    ELSE IF current.t # "dict" THEN Raised("AttributeError")
    ELSE GetNested(IF HasKey(current, Head(keys)) THEN GetItem(current, Head(keys)) ELSE JDict(<<>>),
                   Tail(keys))

\* str(n) of a natural number
RECURSIVE IntText(_)
IntText(n) ==
    LET digit == <<"0","1","2","3","4","5","6","7","8","9">>[(n % 10) + 1]
    IN  IF n < 10 THEN <<digit>> ELSE IntText(n \div 10) \o <<digit>>

\* repr(s) of a str without quotes: the newline and the backslash escaped
ReprStr(s) ==
    <<"'">> \o Flatten([i \in 1..Len(s) |->
                          IF s[i] = "\n" THEN <<"\\", "n">>
                          ELSE IF s[i] = "\\" THEN <<"\\", "\\">> ELSE <<s[i]>>]) \o <<"'">>

\* ", ".join(parts)
RECURSIVE Join(_)
Join(parts) ==
    IF parts = <<>> THEN <<>>
    ELSE IF Len(parts) = 1 THEN parts[1]
    ELSE parts[1] \o <<","," ">> \o Join(Tail(parts))

\* repr(value)
RECURSIVE Repr(_)
Repr(value) ==
    CASE value.t = "str" -> ReprStr(value.v)
      [] value.t = "bool" -> IF value.v THEN <<"T","r","u","e">> ELSE <<"F","a","l","s","e">>
      [] value.t = "int" -> IntText(value.v)
      [] value.t = "list" -> <<"[">> \o Join([i \in 1..Len(value.v) |-> Repr(value.v[i])]) \o <<"]">>
      [] value.t = "dict" ->
             <<"{">> \o Join([i \in 1..Len(value.v) |->
                              ReprStr(value.v[i][1]) \o <<":"," ">> \o Repr(value.v[i][2])]) \o <<"}">>

\* str(value): a str is itself, any other value is its repr
StrOf(value) == IF value.t = "str" THEN value.v ELSE Repr(value)

\* The file preferences.json: missing, holding a JSON document, or not
\* readable as one.
StoredPreferences(prefs) == [status |-> "ok", doc |-> prefs]
MissingPreferences == [status |-> "missing", doc |-> JDict(<<>>)]
CorruptPreferences == [status |-> "corrupt", doc |-> JDict(<<>>)]

\* load_preferences()
LoadPreferences(file) == IF file.status = "ok" THEN file.doc ELSE DefaultPreferences

\* lines 27-40 of set_user_preference: the document after the assignment, or
\* the exception raised
SetPreference(prefs, key, value) ==
    IF Contains(key, <<".">>)
    THEN SetNested(prefs, Split(key), JStr(value))
    ELSE SetItem(prefs, key, JStr(value))

\* lines 62-72 of get_user_preference: the str returned, or the exception raised
GetPreference(prefs, key) ==
    IF Contains(key, <<".">>)
    THEN LET current == GetNested(prefs, Split(key))
         IN  IF current.t = "raise" THEN current ELSE JStr(StrOf(current))
    ELSE JStr(StrOf(IF HasKey(prefs, key) THEN GetItem(prefs, key) ELSE JStr(<<"N","o","t"," ","s","e","t">>)))

\* The result texts of the two tools (\u2713 is the check mark, \u2717 the cross).
SetText(key, value) ==
    << Lit("\\u2713 Preference '"), Chars(key), Lit("' has been set to '"), Chars(value),
       Lit("'. (saved to: "), Lit("preferences.json"), Lit(")") >>
SaveErrorText(key) == << Lit("\\u2717 Error saving preference '"), Chars(key), Lit("'.") >>
SetErrorText(e) == << Lit("\\u2717 Error setting preference: "), Err(e) >>
GetText(text) == << Chars(text) >>
GetErrorText(e) == << Lit("Error retrieving preference: "), Err(e) >>

\* The arguments of the calls.
PreferenceKeys ==
    { <<"t","h","e","m","e">>, <<"u","s","e","r","_","e","m","a","i","l">>, <<"w","o","r","k","_","h","o","u","r","s">>, <<"w","o","r","k","_","h","o","u","r","s",".","s","t","a","r","t">>, <<"p","r","o","f","i","l","e",".","t","e","a","m",".","n","a","m","e">>,
      <<"u","s","e","r","_","e","m","a","i","l",".","a","l","i","a","s">>, <<"b","u","s","y","_","k","e","y","w","o","r","d","s",".","f","i","r","s","t">>, <<"a","v","a","i","l","a","b","i","l","i","t","y",".","m","o","n","d","a","y",".","a","m">> }
PreferenceValues == { <<"d","a","r","k">>, <<"0","8",":","3","0">> }

\* A document written by earlier calls.
EarlierPreferences ==
    JDict(<< <<<<"u","s","e","r","_","e","m","a","i","l">>, JStr(<<"m","e","@","x",".","c","o">>)>>, <<<<"p","r","o","f","i","l","e">>, JDict(<<>>)>>,
            <<<<"w","o","r","k","_","h","o","u","r","s">>, JStr(<<"f","l","e","x","i","b","l","e">>)>> >>)
InitialPreferencesFiles ==
    { MissingPreferences, CorruptPreferences, StoredPreferences(DefaultPreferences),
      StoredPreferences(EarlierPreferences) }

\* What a call of a preference tool was given and returned.
PrefResult(op, key, value, success, text) ==
    [op |-> op, key |-> key, value |-> value, success |-> success, text |-> text]
NoPrefResult == PrefResult("none", <<>>, <<>>, FALSE, <<>>)

\* The state in which no call of the preference tools was made.
PrefsIdle ==
    /\ prefs_file = MissingPreferences
    /\ sets = 0
    /\ lastSet = NoPrefResult
    /\ prefResult = NoPrefResult

(******************** the stores under concurrent callers *******************)
\* Two callers (threads or processes) that use the stores at the same time.
Callers == {"A", "B"}

\* the file a tool reads and writes
StoreOf(op) == IF op = "update_preference" THEN "preferences" ELSE "memory"

\* the document a call saves, from the document it loaded; update_preference:
\* prefs[key] = value
Changed(document, call) ==
    IF call.op = "update_preference"
    THEN SetItem(document, call.key, JStr(call.value))
    ELSE WithEntryOf(document, call)

\* A caller: where it is in its call (idle, loaded, done), the call, the
\* document it holds, the number of saves made before it loaded, and its place
\* among the saves (0: none made).
Caller(pc, call, document, sawSaves, order) ==
    [pc |-> pc, call |-> call, document |-> document, sawSaves |-> sawSaves, order |-> order]
IdleCaller == Caller("idle", NoCall, <<>>, 0, 0)

\* the keys update_preference is called with
UpdatedKeys == {<<"t","h","e","m","e">>, <<"u","s","e","r","_","e","m","a","i","l">>}

\* The state in which no caller uses the stores at the same time as another.
RaceIdle == callers = [c \in Callers |-> IdleCaller]

StoreIdle == MemoryIdle /\ PrefsIdle /\ RaceIdle

\* The state in which no call of send_email_reply is under way.
ReplyIdle ==
    /\ thread_or_message_id = ""
    /\ rpc = "idle"
    /\ original_msg = NoMessage
    /\ thread_id = NoneTok
    /\ original_sender = None
    /\ reply_subject = None
    /\ caught = ""
    /\ log = <<>>
    /\ replyOutcome = Running

\* The state in which no call of parse_email_for_meeting is under way.
ParseIdle ==
    /\ email_subject = <<>>
    /\ email_body = <<>>
    /\ email_from = <<>>
    /\ hashSeed = 0
    /\ calls = 0
    /\ outcome = [kind |-> "none"]
    /\ prevOutcome = [kind |-> "none"]

(**************** parse_email_for_meeting: the behaviours *******************)
NotCalled == [kind |-> "none"]

ParseInit ==
    /\ \E in \in ParseInputs :
          /\ email_subject = in[1]
          /\ email_body = in[2]
          /\ email_from = in[3]
    /\ hashSeed \in 0..(MaxSeed - 1)
    /\ calls = 0
    /\ outcome = NotCalled
    /\ prevOutcome = NotCalled
    /\ ReplyIdle
    /\ StoreIdle

\* One call of parse_email_for_meeting with the arguments of this behaviour.
ParseCall ==
    /\ calls < MaxCalls
    /\ calls' = calls + 1
    /\ prevOutcome' = outcome
    /\ outcome' = ParseEmailForMeeting(email_subject, email_body, email_from, hashSeed)
    /\ UNCHANGED <<email_subject, email_body, email_from, hashSeed>>
    /\ UNCHANGED <<replyVars, storeVars>>

\* The interpreter process ends and another one starts between two calls: the
\* new process draws its own hash seed (PYTHONHASHSEED unset).
ProcessRestart ==
    /\ calls >= 1
    /\ calls < MaxCalls
    /\ \E seed \in 0..(MaxSeed - 1) :
          /\ seed # hashSeed
          /\ hashSeed' = seed
    /\ UNCHANGED <<email_subject, email_body, email_from, calls, outcome, prevOutcome>>
    /\ UNCHANGED <<replyVars, storeVars>>

ParseNext == ParseCall \/ ProcessRestart

SpecParse == ParseInit /\ [][ParseNext]_vars

(******************* send_email_reply: the behaviours **********************)
ReplyInit ==
    /\ thread_or_message_id \in Identifiers
    /\ rpc = "get_service"
    /\ original_msg = NoMessage
    /\ thread_id = NoneTok
    /\ original_sender = None
    /\ reply_subject = None
    /\ caught = ""
    /\ log = <<>>
    /\ replyOutcome = Running
    /\ ParseIdle
    /\ StoreIdle

Finish(res) ==
    /\ rpc' = "done"
    /\ replyOutcome' = res

\* lines 24-30: get_gmail_service() returns a service, returns None or raises
\* (it is called outside every try).
GetService ==
    /\ rpc = "get_service"
    /\ \/ /\ rpc' = "get_message"
          /\ UNCHANGED replyOutcome
       \/ Finish(Return(NoServiceText))
       \/ Finish(Raise(ServiceError))
    /\ UNCHANGED <<thread_or_message_id, original_msg, thread_id, original_sender,
                   reply_subject, caught, log>>
    /\ UNCHANGED <<parseVars, storeVars>>

\* Mutant of GetMessage: the thread lookup follows whatever the message lookup gave.
GetMessageThenThread ==
    /\ rpc = "get_message"
    /\ \/ \E resp \in MessageResponses :
             /\ original_msg' = resp
             /\ thread_id' = resp.threadId
             /\ log' = Append(log, FoundEntry("messages.get", thread_or_message_id, resp.threadId))
       \/ /\ original_msg' = NoMessage
          /\ thread_id' = thread_id
          /\ log' = Append(log, GetEntry("messages.get", thread_or_message_id, FALSE))
    /\ rpc' = "get_thread"
    /\ UNCHANGED <<thread_or_message_id, original_sender, reply_subject, caught, replyOutcome>>
    /\ UNCHANGED <<parseVars, storeVars>>

\* lines 34-38: the identifier looked up as a message
GetMessage ==
    /\ rpc = "get_message"
    /\ \/ \E resp \in MessageResponses :
             /\ original_msg' = resp
             /\ thread_id' = resp.threadId
             /\ log' = Append(log, FoundEntry("messages.get", thread_or_message_id, resp.threadId))
             /\ rpc' = IF Falsy(resp) THEN "get_thread" ELSE "headers"
       \/ /\ original_msg' = NoMessage
          /\ thread_id' = thread_id
          /\ log' = Append(log, GetEntry("messages.get", thread_or_message_id, FALSE))
          /\ rpc' = "get_thread"
    /\ UNCHANGED <<thread_or_message_id, original_sender, reply_subject, caught, replyOutcome>>
    /\ UNCHANGED <<parseVars, storeVars>>

\* lines 41-46 and 50-51: the identifier looked up as a thread
GetThread ==
    /\ rpc = "get_thread"
    /\ \/ \E thread \in ThreadResponses :
             /\ thread_id' = thread.id
             /\ log' = Append(log, FoundEntry("threads.get", thread_or_message_id, thread.id))
             /\ rpc' = IF thread.messages # <<>> THEN "get_first_message" ELSE "headers"
             /\ UNCHANGED original_msg
       \/ /\ original_msg' = NoMessage
          /\ log' = Append(log, GetEntry("threads.get", thread_or_message_id, FALSE))
          /\ rpc' = "headers"
          /\ UNCHANGED thread_id
    /\ UNCHANGED <<thread_or_message_id, original_sender, reply_subject, caught, replyOutcome>>
    /\ UNCHANGED <<parseVars, storeVars>>

\* lines 48-51: the first message of the thread fetched for its headers
GetFirstMessage ==
    /\ rpc = "get_first_message"
    /\ \/ \E resp \in MessageResponses :
             /\ original_msg' = resp
             /\ log' = Append(log, FoundEntry("messages.get", "msg-first", resp.threadId))
       \/ /\ original_msg' = NoMessage
          /\ log' = Append(log, GetEntry("messages.get", "msg-first", FALSE))
    /\ rpc' = "headers"
    /\ UNCHANGED <<thread_or_message_id, thread_id, original_sender, reply_subject, caught,
                   replyOutcome>>
    /\ UNCHANGED <<parseVars, storeVars>>

\* lines 54-74: the headers decoded, the sender and the subject derived, and
\* the return taken when no sender was found
Headers ==
    /\ rpc = "headers"
    /\ IF ~Falsy(original_msg) /\ original_msg.hasRaw
       THEN IF ~original_msg.decodable
            THEN /\ caught' = DecodeError
                 /\ rpc' = "except"
                 /\ UNCHANGED <<original_sender, reply_subject, thread_id, replyOutcome>>
            ELSE /\ original_sender' = original_msg.From
                 /\ reply_subject' = Some(ReplySubject(original_msg.Subject))
                 /\ thread_id' = IF thread_id = NoneTok THEN original_msg.threadId ELSE thread_id
                 /\ IF SenderMissing(original_msg.From)
                    THEN Finish(Return(NotFoundText))
                    ELSE rpc' = "send" /\ UNCHANGED replyOutcome
                 /\ UNCHANGED caught
       ELSE /\ IF SenderMissing(original_sender)
               THEN Finish(Return(NotFoundText))
               ELSE rpc' = "send" /\ UNCHANGED replyOutcome
            /\ UNCHANGED <<original_sender, reply_subject, thread_id, caught>>
    /\ UNCHANGED <<thread_or_message_id, original_msg, log>>
    /\ UNCHANGED <<parseVars, storeVars>>

\* lines 77-105: the reply built and sent; the provider accepts it or raises
PrimarySend ==
    /\ rpc = "send"
    /\ LET data == PrimaryData(original_msg, original_sender, reply_subject, thread_id)
       IN  \/ /\ log' = Append(log, SendEntry("primary", data, TRUE))
              /\ Finish(Return(SuccessText(data.To, FormatText(reply_subject))))
              /\ UNCHANGED caught
           \/ \E e \in ProviderErrors :
                 /\ log' = Append(log, SendEntry("primary", data, FALSE))
                 /\ caught' = e
                 /\ rpc' = "except"
                 /\ UNCHANGED replyOutcome
    /\ UNCHANGED <<thread_or_message_id, original_msg, thread_id, original_sender, reply_subject>>
    /\ UNCHANGED <<parseVars, storeVars>>

\* Mutant of Except: the handler reports the failure and sends nothing.
ExceptNoFallback ==
    /\ rpc = "except"
    /\ Finish(Return(FailedText(caught)))
    /\ UNCHANGED <<thread_or_message_id, original_msg, thread_id, original_sender,
                   reply_subject, caught, log>>
    /\ UNCHANGED <<parseVars, storeVars>>

\* lines 107-110 and 121: the handler of the outer try
Except ==
    /\ rpc = "except"
    /\ IF Truthy(original_sender)
       THEN rpc' = "fallback_send" /\ UNCHANGED replyOutcome
       ELSE Finish(Return(FailedText(caught)))
    /\ UNCHANGED <<thread_or_message_id, original_msg, thread_id, original_sender,
                   reply_subject, caught, log>>
    /\ UNCHANGED <<parseVars, storeVars>>

\* Mutant of FallbackSend: a send that raised is tried again.
FallbackSendRetry ==
    /\ rpc = "fallback_send"
    /\ LET data == FallbackData(original_sender, reply_subject)
       IN  \/ /\ log' = Append(log, SendEntry("fallback", data, TRUE))
              /\ Finish(Return(FallbackSentText(data.To, caught)))
           \/ /\ log' = Append(log, SendEntry("fallback", data, FALSE))
              /\ UNCHANGED <<rpc, replyOutcome>>
    /\ UNCHANGED <<thread_or_message_id, original_msg, thread_id, original_sender,
                   reply_subject, caught>>
    /\ UNCHANGED <<parseVars, storeVars>>

\* lines 111-120: the new message sent to the recipient
FallbackSend ==
    /\ rpc = "fallback_send"
    /\ LET data == FallbackData(original_sender, reply_subject)
       IN  \/ /\ log' = Append(log, SendEntry("fallback", data, TRUE))
              /\ Finish(Return(FallbackSentText(data.To, caught)))
           \/ \E e2 \in ProviderErrors :
                 /\ log' = Append(log, SendEntry("fallback", data, FALSE))
                 /\ Finish(Return(BothFailedText(caught, e2)))
    /\ UNCHANGED <<thread_or_message_id, original_msg, thread_id, original_sender,
                   reply_subject, caught>>
    /\ UNCHANGED <<parseVars, storeVars>>

ReplyNext ==
    \/ GetService
    \/ GetMessage
    \/ GetThread
    \/ GetFirstMessage
    \/ Headers
    \/ PrimarySend
    \/ Except
    \/ FallbackSend

SpecReply == ReplyInit /\ [][ReplyNext]_vars

(************************ the memory store: behaviours **********************)
MemoryInit ==
    /\ memory_file \in InitialMemoryFiles
    /\ now = 0
    /\ added = IF memory_file.status = "ok" THEN memory_file.doc.conversation_context ELSE <<>>
    /\ memResult = NoMemResult
    /\ memBefore = memory_file
    /\ memCall = NoCall
    /\ ParseIdle
    /\ ReplyIdle
    /\ PrefsIdle
    /\ RaceIdle

\* add_conversation_context(role, content, topic)
AddConversationContext ==
    /\ now < MaxAdds
    /\ \E role \in Roles, content \in Contents, topic \in Topics :
          LET memory == LoadMemory(memory_file)
              context == ContextEntry(role, content, topic, now + 1)
          IN  /\ memory_file' = SaveMemory(WithContext(memory, context))
              /\ added' = Append(added, context)
              /\ memResult' = MemResult("add", topic, 0, <<>>)
              /\ memCall' = [WriteCall("add_conversation_context", now + 1) EXCEPT
                                 !.role = role, !.content = content, !.topic = topic]
    /\ memBefore' = memory_file
    /\ now' = now + 1
    /\ UNCHANGED <<parseVars, replyVars, prefsVars, raceVars>>

\* recall_conversation_context(topic, limit)
RecallConversationContext ==
    /\ \E topic \in TopicFilters, limit \in Limits :
          memResult' = MemResult("recall", topic, limit,
                                 RecallContext(LoadMemory(memory_file), topic, limit))
    /\ memory_file' = EnsureMemoryFile(memory_file)
    /\ memBefore' = memory_file
    /\ UNCHANGED <<now, added, memCall>>
    /\ UNCHANGED <<parseVars, replyVars, prefsVars, raceVars>>

MemoryNext == AddConversationContext \/ RecallConversationContext

SpecMemory == MemoryInit /\ [][MemoryNext]_vars

\* store_preference(key, value, category)
StorePreference ==
    /\ now < MaxWrites
    /\ \E key \in PreferenceNames, value \in StoredValues, category \in Categories :
          /\ memory_file' = SaveMemory(WithPreference(LoadMemory(memory_file), key, value,
                                                      category, now + 1))
          /\ memCall' = [WriteCall("store_preference", now + 1) EXCEPT
                             !.key = key, !.value = value, !.category = category]
    /\ memBefore' = memory_file
    /\ now' = now + 1
    /\ UNCHANGED <<added, memResult>>
    /\ UNCHANGED <<parseVars, replyVars, prefsVars, raceVars>>

\* store_user_fact(key, value)
StoreUserFact ==
    /\ now < MaxWrites
    /\ \E key \in FactNames, value \in StoredValues :
          /\ memory_file' = SaveMemory(WithFact(LoadMemory(memory_file), key, value, now + 1))
          /\ memCall' = [WriteCall("store_user_fact", now + 1) EXCEPT
                             !.key = key, !.value = value]
    /\ memBefore' = memory_file
    /\ now' = now + 1
    /\ UNCHANGED <<added, memResult>>
    /\ UNCHANGED <<parseVars, replyVars, prefsVars, raceVars>>

\* add_important_contact(email, name, relationship): the document is saved
\* only when the contact was appended
AddImportantContact ==
    /\ now < MaxWrites
    /\ \E email \in ContactEmails, name \in ContactNames, relationship \in Relationships :
          LET memory == LoadMemory(memory_file)
              appended == WithContact(memory, Contact(email, name, relationship, now + 1))
          IN  /\ memory_file' = IF appended = memory
                                THEN EnsureMemoryFile(memory_file)
                                ELSE SaveMemory(appended)
              /\ memCall' = [WriteCall("add_important_contact", now + 1) EXCEPT
                                 !.email = email, !.name = name, !.relationship = relationship]
    /\ memBefore' = memory_file
    /\ now' = now + 1
    /\ UNCHANGED <<added, memResult>>
    /\ UNCHANGED <<parseVars, replyVars, prefsVars, raceVars>>

\* The calls that write the memory document, one after the other.
WritesInit ==
    /\ memory_file \in InitialWriteFiles
    /\ now = 0
    /\ added = IF memory_file.status = "ok" THEN memory_file.doc.conversation_context ELSE <<>>
    /\ memResult = NoMemResult
    /\ memBefore = memory_file
    /\ memCall = NoCall
    /\ ParseIdle
    /\ ReplyIdle
    /\ PrefsIdle
    /\ RaceIdle

WritesNext ==
    StorePreference \/ StoreUserFact \/ AddImportantContact \/ AddConversationContext

SpecWrites == WritesInit /\ [][WritesNext]_vars

(********************** the preference store: behaviours ********************)
PrefsInit ==
    /\ prefs_file \in InitialPreferencesFiles
    /\ sets = 0
    /\ lastSet = NoPrefResult
    /\ prefResult = NoPrefResult
    /\ ParseIdle
    /\ ReplyIdle
    /\ MemoryIdle
    /\ RaceIdle

\* set_user_preference(key, value); the write of save_preferences succeeds or
\* fails, and a failed write leaves the file as it was
SetUserPreference ==
    /\ sets < MaxSets
    /\ sets' = sets + 1
    /\ \E key \in PreferenceKeys, value \in PreferenceValues :
          LET prefs == SetPreference(LoadPreferences(prefs_file), key, value)
          IN  IF prefs.t = "raise"
              THEN /\ prefResult' = PrefResult("set", key, value, FALSE, SetErrorText(prefs.v))
                   /\ UNCHANGED prefs_file
              ELSE \/ /\ prefs_file' = StoredPreferences(prefs)
                      /\ prefResult' = PrefResult("set", key, value, TRUE, SetText(key, value))
                   \/ /\ prefResult' = PrefResult("set", key, value, FALSE, SaveErrorText(key))
                      /\ UNCHANGED prefs_file
    /\ lastSet' = prefResult'
    /\ UNCHANGED <<parseVars, replyVars, memoryVars, raceVars>>

\* get_user_preference(key)
GetUserPreference ==
    /\ \E key \in PreferenceKeys :
          LET got == GetPreference(LoadPreferences(prefs_file), key)
          IN  prefResult' =
                  IF got.t = "raise"
                  THEN PrefResult("get", key, <<>>, FALSE, GetErrorText(got.v))
                  ELSE PrefResult("get", key, got.v, TRUE, GetText(got.v))
    /\ UNCHANGED <<prefs_file, sets, lastSet>>
    /\ UNCHANGED <<parseVars, replyVars, memoryVars, raceVars>>

PrefsNext == SetUserPreference \/ GetUserPreference

SpecPrefs == PrefsInit /\ [][PrefsNext]_vars

(****************** the stores under concurrent callers: behaviours *********)
\* the saves made so far
Saves == Cardinality({c \in Callers : callers[c].order > 0})

\* Caller c took the call and loaded: it holds the changed document.
Loaded(c, call) ==
    LET document == IF StoreOf(call.op) = "memory"
                    THEN LoadMemory(memory_file)
                    ELSE LoadPreferences(prefs_file)
    IN  /\ callers' = [callers EXCEPT ![c] = Caller("loaded", call, Changed(document, call), Saves, 0)]
        /\ memory_file' = IF StoreOf(call.op) = "memory"
                          THEN EnsureMemoryFile(memory_file)
                          ELSE memory_file

\* The first half of a call of add_conversation_context, store_user_fact or
\* update_preference: load_memory() / load_preferences() and the change of the
\* loaded document.
LoadStep(c) ==
    /\ callers[c].pc = "idle"
    /\ \/ \E role \in Roles, content \in Contents :
             Loaded(c, [WriteCall("add_conversation_context", now + 1) EXCEPT
                            !.role = role, !.content = content, !.topic = DefaultTopic])
       \/ \E key \in FactNames, value \in StoredValues :
             Loaded(c, [WriteCall("store_user_fact", now + 1) EXCEPT
                            !.key = key, !.value = value])
       \/ \E key \in UpdatedKeys, value \in PreferenceValues :
             Loaded(c, [WriteCall("update_preference", now + 1) EXCEPT
                            !.key = key, !.value = value])
    /\ now' = now + 1
    /\ UNCHANGED <<prefs_file, added, memResult, memBefore, memCall, sets, lastSet, prefResult>>
    /\ UNCHANGED <<parseVars, replyVars>>

\* Mutant of SaveStep: the file is read again and the change made to what it
\* holds now, as under a lock around the whole call.
SaveStepLocked(c) ==
    /\ callers[c].pc = "loaded"
    /\ LET call == callers[c].call
           done == [callers[c] EXCEPT !.pc = "done", !.order = Saves + 1]
       IN  IF StoreOf(call.op) = "memory"
           THEN /\ memory_file' = SaveMemory(Changed(LoadMemory(memory_file), call))
                /\ callers' = [callers EXCEPT ![c] = done]
                /\ UNCHANGED prefs_file
           ELSE /\ prefs_file' = StoredPreferences(Changed(LoadPreferences(prefs_file), call))
                /\ callers' = [callers EXCEPT ![c] = done]
                /\ UNCHANGED memory_file
    /\ UNCHANGED <<now, added, memResult, memBefore, memCall, sets, lastSet, prefResult>>
    /\ UNCHANGED <<parseVars, replyVars>>

\* The second half of the call: save_memory(memory) / save_preferences(prefs)
\* and the return.  The tools of the memory report success whatever
\* save_memory returns; update_preference returns what save_preferences
\* returns, and a failed write leaves the file as it was.
SaveStep(c) ==
    /\ callers[c].pc = "loaded"
    /\ LET call == callers[c].call
           done == [callers[c] EXCEPT !.pc = "done", !.order = Saves + 1]
           failed == [callers[c] EXCEPT !.pc = "done", !.call.success = FALSE]
       IN  IF StoreOf(call.op) = "memory"
           THEN /\ memory_file' = SaveMemory(callers[c].document)
                /\ callers' = [callers EXCEPT ![c] = done]
                /\ UNCHANGED prefs_file
           ELSE \/ /\ prefs_file' = StoredPreferences(callers[c].document)
                   /\ callers' = [callers EXCEPT ![c] = done]
                   /\ UNCHANGED memory_file
                \/ /\ callers' = [callers EXCEPT ![c] = failed]
                   /\ UNCHANGED <<memory_file, prefs_file>>
    /\ UNCHANGED <<now, added, memResult, memBefore, memCall, sets, lastSet, prefResult>>
    /\ UNCHANGED <<parseVars, replyVars>>

RaceInit ==
    /\ memory_file \in {MissingFile, StoredFile(EarlierMemory)}
    /\ prefs_file \in {MissingPreferences, StoredPreferences(EarlierPreferences)}
    /\ now = 0
    /\ added = <<>>
    /\ memResult = NoMemResult
    /\ memBefore = MissingFile
    /\ memCall = NoCall
    /\ sets = 0
    /\ lastSet = NoPrefResult
    /\ prefResult = NoPrefResult
    /\ RaceIdle
    /\ ParseIdle
    /\ ReplyIdle

RaceNext == \E c \in Callers : LoadStep(c) \/ SaveStep(c)

SpecRace == RaceInit /\ [][RaceNext]_vars

(************************* the claims: the parser ***************************)
Returned == calls >= 1 /\ outcome.kind = "return"
Min(a, b) == IF a < b THEN a ELSE b
Bit(b) == IF b THEN 1 ELSE 0
ListSet(lst) == {lst[i] : i \in 1..Len(lst)}
\* the signals of the arguments of this behaviour
Sig == Signals(email_subject, email_body, email_from, hashSeed)

\* C1: every call of parse_email_for_meeting ends by returning a record, never
\* by an exception, and the confidence of the record is between 0 and 0.95.
C1_ReturnsBoundedConfidence ==
    calls >= 1 =>
        /\ outcome.kind = "return"
        /\ outcome.value.confidence >= 0
        /\ outcome.value.confidence <= 95
\* a call whose weighted sum is 1.0 and whose confidence is the cap
C1_Witness ==
    /\ Returned
    /\ outcome.value.success
    /\ Sig.has_time /\ Sig.has_meeting_keyword /\ Sig.has_location
    /\ outcome.value.confidence = 95

\* C2: the returned meeting_found is true exactly when a time pattern matched,
\* or both a meeting keyword and a location were found.
C2_MeetingFoundIffSignals ==
    calls >= 1 =>
        /\ outcome.kind = "return"
        /\ outcome.value.meeting_found
             = (Sig.has_time \/ (Sig.has_meeting_keyword /\ Sig.has_location))

\* C3: the returned confidence is min(0.95, 0.3*time + 0.3*keyword + 0.2*location
\* + 0.2*attendees), attendees being true when there is more than one attendee
\* or a sender was supplied.
C3_ConfidenceIsWeightedSum ==
    calls >= 1 =>
        LET attendeesFound == Len(Sig.attendees) > 1 \/ email_from # <<>>
        IN  /\ outcome.kind = "return"
            /\ outcome.value.confidence
                 = Min(95, 30 * Bit(Sig.has_time) + 30 * Bit(Sig.has_meeting_keyword)
                             + 20 * Bit(Sig.has_location) + 20 * Bit(attendeesFound))

\* The case of C4: a meeting keyword in the subject; a time of day, a location
\* anchor keyword and two distinct addresses in the body; no sender.
C4_Case ==
    /\ HasMeetingKeyword(Lower(email_subject))
    /\ TimesFound(Lower(email_body)) # {}
    /\ \E n \in 1..Len(LocationKeywords) : Contains(Lower(email_body), LocationKeywords[n])
    /\ Cardinality(ListSet(FindAllEmails(email_body))) = 2
    /\ email_from = <<>>
\* the first anchor keyword of the list that the body holds, as the body writes it
C4_AnchorText ==
    LET n == MinOf({m \in 1..Len(LocationKeywords) : Contains(Lower(email_body), LocationKeywords[m])})
        idx == Find(Lower(email_body), LocationKeywords[n])
    IN  Slice(email_body, idx, idx + Len(LocationKeywords[n]))
\* C4: in that case (the Team Sync example) meeting_found is true, the attendees
\* are exactly the addresses of the body, the confidence is at least 0.8 and the
\* location contains the location text written at the anchor keyword
\* ("Conference Room B" in the example).
C4_TeamSyncExample ==
    (calls >= 1 /\ C4_Case) =>
        /\ outcome.kind = "return"
        /\ outcome.value.meeting_found
        /\ ListSet(outcome.value.attendees) = ListSet(FindAllEmails(email_body))
        /\ outcome.value.confidence >= 80
        /\ Contains(outcome.value.location, C4_AnchorText)
        /\ (email_body = TeamSyncBody =>
               Contains(outcome.value.location, <<"C","o","n","f","e","r","e","n","c","e"," ","R","o","o","m"," ","B">>))

\* C5: with an empty subject, an empty body and an empty sender the call returns
\* meeting_found = false and confidence = 0.0, and none of the four signals is set.
C5_EmptyInput ==
    (calls >= 1 /\ email_subject = <<>> /\ email_body = <<>> /\ email_from = <<>>) =>
        /\ outcome.kind = "return"
        /\ outcome.value.meeting_found = FALSE
        /\ outcome.value.confidence = 0
        /\ ~Sig.has_time /\ ~Sig.has_meeting_keyword /\ ~Sig.has_location
        /\ Sig.has_attendees = PyStr(<<>>)
C5_Witness ==
    /\ Returned
    /\ email_subject = <<>> /\ email_body = <<>> /\ email_from = <<>>
    /\ outcome.value.confidence = 0

\* C6: two calls with the same subject, body and sender return the same result
\* in every field, the order of the attendees included.
C6_SameInputsSameResult ==
    calls >= 2 => outcome = prevOutcome

\* C7: when an error occurs inside the function, the call still returns, and the
\* record returned has meeting_found = false, confidence = 0 and an error note.
C7_ErrorReportedInRecord ==
    (calls >= 1 /\ TryBlock(email_subject, email_body, email_from, hashSeed).kind = "raise") =>
        /\ outcome.kind = "return"
        /\ outcome.value.success = FALSE
        /\ outcome.value.meeting_found = FALSE
        /\ outcome.value.confidence = 0
        /\ outcome.value.error # ""
\* an error in a call whose text holds a time: the except clause built the record
C7_Witness ==
    /\ Returned
    /\ TryBlock(email_subject, email_body, email_from, hashSeed).kind = "raise"
    /\ Sig.has_time
    /\ outcome.value.error = TypeErrorText

(********************** the claims: send_email_reply ************************)
Sends == {i \in DOMAIN log : log[i].call = "messages.send"}
PrimarySends == {i \in Sends : log[i].mode = "primary"}
FallbackSends == {i \in Sends : log[i].mode = "fallback"}
Lookups(call) == {i \in DOMAIN log : log[i].call = call}
\* The lookups are over and gave no message: the message lookup raised or
\* returned nothing, and so did the lookup as a thread.
ResolvedNeither ==
    /\ rpc \in {"headers", "send", "except", "fallback_send", "done"}
    /\ Lookups("messages.get") # {}
    /\ Lookups("threads.get") # {}
    /\ Falsy(original_msg)

\* C8: when the identifier resolves neither as a message nor as a thread, no
\* send call is made, neither the primary one nor the fallback.
C8_NoSendWhenUnresolved ==
    ResolvedNeither => Sends = {}
C8_Witness ==
    /\ ResolvedNeither
    /\ rpc = "done"
    /\ \E i \in Lookups("threads.get") : ~log[i].ok

\* C9 as stated: when the identifier resolves neither as a message nor as a
\* thread, the result text names that identifier as not found.
C9_TextNamesIdentifier ==
    (ResolvedNeither /\ rpc = "done") =>
        /\ replyOutcome.kind = "return"
        /\ \E i \in DOMAIN replyOutcome.text :
              replyOutcome.text[i].k # "lit" /\ replyOutcome.text[i].s = thread_or_message_id
\* C9 as amended: in that case the result is the fixed not-found text, which
\* reports the original message or thread as not found and holds no identifier.
C9_FixedNotFoundText ==
    (ResolvedNeither /\ rpc = "done") =>
        /\ replyOutcome.kind = "return"
        /\ Len(replyOutcome.text) = 1
        /\ replyOutcome.text[1] = Lit("ERROR: Original message or thread not found or not accessible. I can instead send a new email to the sender if you provide their address.")
C9_Witness ==
    /\ ResolvedNeither
    /\ rpc = "done"
    /\ replyOutcome.kind = "return"
    /\ \E i \in Lookups("threads.get") : log[i].ok

\* C10: when the sender was resolved and the primary send raised, exactly one
\* fallback send is attempted: one by the end of the call, never more than one.
C10_ExactlyOneFallback ==
    /\ Cardinality(FallbackSends) <= 1
    /\ (rpc = "done" /\ Truthy(original_sender) /\ \E i \in PrimarySends : ~log[i].ok)
          => Cardinality(FallbackSends) = 1
C10_Witness ==
    /\ rpc = "done"
    /\ Truthy(original_sender)
    /\ \E i \in PrimarySends : ~log[i].ok
    /\ \E i \in FallbackSends : ~log[i].ok

(********************** the claims: the reply, continued ********************)
\* C11: one invocation makes at most one primary send and at most one fallback
\* send; a primary send that succeeded is the only send of the invocation; and
\* a fallback send comes only after a failure was caught on the primary path.
C11_AtMostOneSendEach ==
    /\ Cardinality(PrimarySends) <= 1
    /\ Cardinality(FallbackSends) <= 1
    /\ \A i \in PrimarySends : log[i].ok => Sends = {i}
    /\ \A j \in FallbackSends :
          /\ caught # ""
          /\ \E i \in PrimarySends : i < j /\ ~log[i].ok
\* an invocation that ended after a primary send that raised and one fallback send
C11_Witness ==
    /\ rpc = "done"
    /\ Cardinality(PrimarySends) = 1
    /\ Cardinality(FallbackSends) = 1
    /\ \E j \in FallbackSends : log[j].ok

\* C12: every invocation of send_email_reply ends by returning a result string:
\* no failure of a collaborator call (obtaining the mail service, the lookups,
\* the sends) leaves the function as an exception.
C12_AlwaysReturnsText ==
    rpc = "done" => (replyOutcome.kind = "return" /\ replyOutcome.text # <<>>)

\* the Subject header of the message the reply answers, '' when it has none
\* (the message is kept in original_msg once its headers were read)
OriginalSubject == HeaderText(original_msg.Subject)
\* the subject starts with "re:", whatever the case of its letters
StartsWithRePrefix(s) ==
    /\ Len(s) >= 3
    /\ s[1] \in {"r", "R"}
    /\ s[2] \in {"e", "E"}
    /\ s[3] = ":"
\* the sends of a reply whose subject was derived from the headers read
SendsWithSubject == {i \in Sends : reply_subject # None}

\* C13: when the subject of the original message starts with "re:" in any letter
\* case, the reply is sent with the original subject unchanged.
C13_PrefixedSubjectReused ==
    \A i \in SendsWithSubject :
        StartsWithRePrefix(OriginalSubject) =>
            /\ log[i].data.Subject = OriginalSubject
            /\ reply_subject = Some(OriginalSubject)
\* a reply sent to a message whose subject is "RE: Budget"
C13_Witness ==
    \E i \in SendsWithSubject :
        /\ OriginalSubject = <<"R","E",":"," ","B","u","d","g","e","t">>
        /\ log[i].data.Subject = <<"R","E",":"," ","B","u","d","g","e","t">>

\* C14 as stated: for every original subject that does not start with a reply
\* prefix, the reply subject is "Re: " followed by the original subject.
C14_PrefixAdded ==
    \A i \in SendsWithSubject :
        ~StartsWithRePrefix(OriginalSubject) =>
            log[i].data.Subject = <<"R","e",":"," ">> \o OriginalSubject
\* C14: for every non-empty original subject that does not start with a reply
\* prefix, the reply subject is "Re: " followed by the original subject; when
\* the original message has no subject or an empty one, the reply subject is
\* "Re:" (without a trailing space).
C14_PrefixAddedToNonEmpty ==
    \A i \in SendsWithSubject :
        ~StartsWithRePrefix(OriginalSubject) =>
            log[i].data.Subject =
                IF OriginalSubject # <<>> THEN <<"R","e",":"," ">> \o OriginalSubject ELSE <<"R","e",":">>
\* a reply sent to a message whose subject is "Budget"
C14_Witness ==
    \E i \in SendsWithSubject :
        /\ OriginalSubject = <<"B","u","d","g","e","t">>
        /\ log[i].data.Subject = <<"R","e",":"," ","B","u","d","g","e","t">>

\* a step that makes the lookup of the identifier as a thread
ThreadLookupStep ==
    /\ Len(log') = Len(log) + 1
    /\ log'[Len(log')].call = "threads.get"
\* the lookup of the identifier as a message was made and gave no message: it
\* raised, or it returned nothing (original_msg holds what it gave)
MessageLookupFailed ==
    /\ log # <<>>
    /\ log[1].call = "messages.get"
    /\ log[1].id = thread_or_message_id
    /\ Lookups("threads.get") = {}
    /\ (~log[1].ok \/ Falsy(original_msg))

\* C18: in every invocation the identifier is looked up as a message before it
\* is looked up as a thread (the first provider call is the message lookup),
\* and the thread lookup is made only when the message lookup raised or
\* returned nothing.
C18_MessageLookupFirst ==
    /\ [](log # <<>> => (log[1].call = "messages.get" /\ log[1].id = thread_or_message_id))
    /\ [][ThreadLookupStep => MessageLookupFailed]_vars
\* a thread lookup made after a message lookup that returned nothing
C18_Witness ==
    /\ Len(log) >= 2
    /\ log[1].call = "messages.get" /\ log[1].ok
    /\ log[2].call = "threads.get" /\ log[2].id = thread_or_message_id

\* a bare address: some text, "@", some text, and no space or angle bracket
IsBareAddress(s) ==
    /\ \E i \in 2..(Len(s) - 1) : s[i] = "@"
    /\ \A i \in 1..Len(s) : s[i] \notin {" ", "<", ">"}

\* C19: every send, primary or fallback, is made after a recipient was
\* resolved: the To of the outgoing message is a non-empty email address taken
\* from the From header of the original message.
C19_SendsToResolvedAddress ==
    \A i \in Sends :
        /\ log[i].data.To # <<>>
        /\ IsBareAddress(log[i].data.To)
        /\ original_msg.From # None
        /\ Contains(original_msg.From[1], log[i].data.To)

\* the invocation ended with the terminal failure result ("An error occurred
\* while sending the email reply: ...")
FailureResult ==
    /\ rpc = "done"
    /\ replyOutcome.kind = "return"
    /\ replyOutcome.text # <<>>
    /\ replyOutcome.text[1] = Lit("An error occurred while sending the email reply: ")
\* both sends were attempted and both raised, and the result carries the error
\* of the primary send and the error of the fallback send
BothSendsRaised ==
    /\ \E i \in PrimarySends : ~log[i].ok
    /\ \E j \in FallbackSends : ~log[j].ok
    /\ Len(replyOutcome.text) = 4
    /\ replyOutcome.text[2] = Err(caught)
    /\ replyOutcome.text[4].k = "err"
    /\ replyOutcome.text[4].s \in ProviderErrors
\* the raw form of the original message could not be decoded, no sender was
\* read from it, no send was attempted and the result carries the one error
DecodeRaised ==
    /\ ~Falsy(original_msg) /\ original_msg.hasRaw /\ ~original_msg.decodable
    /\ original_sender = None
    /\ Sends = {}
    /\ replyOutcome.text = << Lit("An error occurred while sending the email reply: "),
                              Err(DecodeError), Lit(".") >>

\* C20 as stated: the terminal failure result is returned only when both the
\* primary and the fallback send were attempted and both raised, and it then
\* carries both error strings; no failure of resolution or of header decoding
\* yields it.
C20_FailureOnlyAfterBothSends == FailureResult => BothSendsRaised
\* C20: the terminal failure result is returned only (a) when both the primary
\* and the fallback send were attempted and both raised, and it then carries
\* both error strings, or (b) when decoding the raw form of the original message
\* raised before a sender was read, and then no send was attempted and the
\* result carries that one error string. A failure of a lookup never yields it.
C20_FailureAfterBothSendsOrDecode == FailureResult => (BothSendsRaised \/ DecodeRaised)
\* an invocation that ended with the failure result after both sends raised
C20_Witness ==
    /\ FailureResult
    /\ BothSendsRaised
    /\ replyOutcome.text = BothFailedText("HttpError 403", "TimeoutError")
\* an invocation that ended with the failure result without any send
C20_DecodeWitness == FailureResult /\ DecodeRaised

(*********************** the claims: the memory store ***********************)
\* the conversation log the file holds
StoredLog == memory_file.doc.conversation_context

Matching(topic) ==
    SelectSeq(StoredLog, LAMBDA c : topic \in {NoneTok, ""} \/ c.topic = topic)
\* C16: recall_conversation_context(topic, limit) returns at most limit
\* entries, for every limit >= 0: the most recent stored entries (of the topic
\* when one is given), the most recent first.
C16_RecallAtMostLimit ==
    (memResult.op = "recall" /\ memResult.limit >= 0) =>
        LET m == Matching(memResult.topic)
            n == Min(memResult.limit, Len(m))
        IN  /\ memResult.success
            /\ memResult.count <= memResult.limit
            /\ memResult.count = Len(memResult.context)
            /\ memResult.context = [i \in 1..n |-> m[Len(m) + 1 - i]]

(********************* the claims: the preference store *********************)
\* the latest set_user_preference call reported success (the check mark text)
SetSucceeded ==
    /\ lastSet.op = "set"
    /\ lastSet.text # <<>>
    /\ lastSet.text[1] = Lit("\\u2713 Preference '")
\* the latest call is a get_user_preference of the key of the latest set
GetOfSameKey == prefResult.op = "get" /\ prefResult.key = lastSet.key
\* the levels above the last one of a dotted key: each is a dict of the file
LevelsAreDicts(key) ==
    LET keys == Split(key)
    IN  \A n \in 1..(Len(keys) - 1) :
            LET d == GetNested(prefs_file.doc, SubSeq(keys, 1, n - 1))
            IN  /\ d.t = "dict"
                /\ HasKey(d, keys[n])
                /\ GetItem(d, keys[n]).t = "dict"

\* C17: after set_user_preference(key, value) reported success, for a dotted
\* key or a key without dots, get_user_preference(key) returns the string form
\* of the value (the value itself, a str), and the levels of a dotted key that
\* were missing exist in the stored document.
C17_SetThenGetRoundTrip ==
    SetSucceeded =>
        /\ prefs_file.status = "ok"
        /\ LevelsAreDicts(lastSet.key)
        /\ GetOfSameKey => prefResult.text = << Chars(lastSet.value) >>
\* a get of 'profile.team.name' after a set of it that created the level 'team'
C17_Witness ==
    /\ SetSucceeded
    /\ GetOfSameKey
    /\ prefResult.key = <<"p","r","o","f","i","l","e",".","t","e","a","m",".","n","a","m","e">>
    /\ prefResult.text = << Chars(<<"0","8",":","3","0">>) >>
\* a get of the key without dots 'theme' after a set of it
C17_PlainKeyWitness ==
    /\ SetSucceeded
    /\ GetOfSameKey
    /\ prefResult.key = <<"t","h","e","m","e">>
    /\ prefResult.text = << Chars(<<"d","a","r","k">>) >>

(********************** the claims: the fallback send ***********************)
\* the invocation ended after a primary send that raised, the sender resolved
PrimaryFailedWithSender ==
    /\ rpc = "done"
    /\ Truthy(original_sender)
    /\ \E i \in PrimarySends : ~log[i].ok

\* C21: after a primary send that failed with a resolved sender the result text
\* reports both outcomes: when the fallback send succeeded, it holds the error
\* of the primary send and says that a new message was sent to the recipient;
\* when the fallback send raised, it holds the error of the primary send and
\* the error of the fallback send.
C21_ResultReportsBothOutcomes ==
    PrimaryFailedWithSender =>
        /\ replyOutcome.kind = "return"
        /\ \E j \in FallbackSends :
              IF log[j].ok
              THEN replyOutcome.text =
                       << Lit("Primary reply failed but a new message was sent to "),
                          Chars(log[j].data.To), Lit(". Error: "), Err(caught) >>
              ELSE \E e2 \in ProviderErrors :
                       replyOutcome.text =
                           << Lit("An error occurred while sending the email reply: "), Err(caught),
                              Lit(". Fallback also failed: "), Err(e2) >>
\* a fallback send that succeeded after the primary send raised "TimeoutError"
C21_Witness ==
    /\ PrimaryFailedWithSender
    /\ caught = "TimeoutError"
    /\ \E j \in FallbackSends : log[j].ok /\ log[j].data.To = <<"a","@","x",".","c","o">>
    /\ replyOutcome.text[4] = Err("TimeoutError")

\* C22: the fallback send goes to the recipient of the primary attempt with the
\* subject of the primary attempt (the generic "Re: " only when no subject was
\* derived), and it carries no threadId, no In-Reply-To and no References.
C22_FallbackUnthreadedSameRecipient ==
    \A j \in FallbackSends :
        /\ \A i \in PrimarySends :
              /\ log[j].data.To = log[i].data.To
              /\ (Truthy(reply_subject) => log[j].data.Subject = log[i].data.Subject)
        /\ (~Truthy(reply_subject) => log[j].data.Subject = <<"R","e",":"," ">>)
        /\ log[j].data.threadId = NoneTok
        /\ log[j].data.InReplyTo = NoneTok
        /\ log[j].data.References = NoneTok
\* a fallback send after a primary send that carried a thread id and a Message-ID
C22_Witness ==
    \E j \in FallbackSends : \E i \in PrimarySends :
        /\ log[i].data.threadId = "thread-A"
        /\ log[i].data.InReplyTo = "<msg-1@mail>"
        /\ log[j].data.Subject = <<"R","e",":"," ","B","u","d","g","e","t">>
        /\ log[j].data.To = <<"a","@","x",".","c","o">>

\* the identifier was resolved as a thread: the thread lookup is the second
\* call and the lookup of the first message of the thread the third
ViaThread == Lookups("threads.get") # {}
\* the first of two thread ids that is known
FirstKnown(a, b) == IF a # NoneTok THEN a ELSE b

BodyAddresses == ListSet(FindAllEmails(email_body))
\* the sender is given and is not an address of the body
SenderIsNew == email_from # <<>> /\ email_from \notin BodyAddresses

\* C24: in every result the attendees hold each address of the body exactly
\* once, and a sender that is supplied and is not among them is the first
\* attendee.
C24_AttendeesAreBodyAddresses ==
    calls >= 1 =>
        LET attendees == outcome.value.attendees
        IN  /\ outcome.kind = "return"
            /\ \A a \in BodyAddresses :
                  Cardinality({i \in 1..Len(attendees) : attendees[i] = a}) = 1
            /\ \A i \in 1..Len(attendees) : attendees[i] \in BodyAddresses \cup {email_from}
            /\ SenderIsNew => (attendees # <<>> /\ attendees[1] = email_from)

\* the keywords of the list that occur in the text, by their place in the list
OccurringKeywords ==
    {n \in 1..Len(LocationKeywords) :
        Contains(FullText(email_subject, email_body), LocationKeywords[n])}
\* what line 87 extracts for the n-th keyword
ExtractedAt(n) ==
    LET idx == Find(FullText(email_subject, email_body), LocationKeywords[n])
    IN  Strip(FirstLine(Slice(email_body, idx, idx + LocationWindow)))

\* C25: when location keywords occur in the text, the location of a parsed
\* record is the one extracted for the first keyword of the list that occurs;
\* no later keyword of the list is used once an earlier one occurs.
C25_FirstKeywordOnly ==
    (calls >= 1 /\ outcome.kind = "return" /\ outcome.value.success /\ OccurringKeywords # {}) =>
        outcome.value.location = ExtractedAt(MinOf(OccurringKeywords))

\* the positive signals of a call: time, keyword, location, attendees (more
\* than one attendee, or a sender supplied)
PositiveSignals(subject, body, from, seed) ==
    LET g == Signals(subject, body, from, seed)
    IN  (IF g.has_time THEN {"time"} ELSE {})
          \cup (IF g.has_meeting_keyword THEN {"keyword"} ELSE {})
          \cup (IF g.has_location THEN {"location"} ELSE {})
          \cup (IF Len(g.attendees) > 1 \/ from # <<>> THEN {"attendees"} ELSE {})
\* inputs with which the input of this behaviour is compared
OtherInputs ==
    { <<TeamSyncSubject, TeamSyncBody, <<>> >>,
      << <<>>, <<"a","@","x",".","c","o"," ","b","@","y",".","i","o">>, <<>> >>,
      << <<>>, <<>>, <<>> >> }
\* C26: the confidence is monotonically non-decreasing in the positive signals:
\* of two inputs, the one whose signals are contained in the signals of the
\* other has the lower or the same confidence, and inputs with the same signals
\* have the same confidence.
C26_ConfidenceMonotone ==
    calls >= 1 =>
        \A other \in OtherInputs :
            LET mine == PositiveSignals(email_subject, email_body, email_from, hashSeed)
                theirs == PositiveSignals(other[1], other[2], other[3], hashSeed)
                result == ParseEmailForMeeting(other[1], other[2], other[3], hashSeed)
            IN  /\ outcome.kind = "return"
                /\ (mine \subseteq theirs =>
                        outcome.value.confidence <= result.value.confidence)
                /\ (theirs \subseteq mine =>
                        result.value.confidence <= outcome.value.confidence)

C28_SuccessWitness ==
    /\ calls >= 1
    /\ SenderIsNew /\ Cardinality(BodyAddresses) = 1
    /\ outcome.value.success
    /\ Len(outcome.value.attendees) = 2

(******************** the claims: the writes of the memory ******************)
\* the sections of the memory document
Sections ==
    {"preferences_memory", "conversation_context", "user_facts", "meeting_patterns",
     "email_patterns", "important_contacts", "version"}
\* the section a tool writes
SectionOf(op) ==
    CASE op = "store_preference" -> "preferences_memory"
      [] op = "store_user_fact" -> "user_facts"
      [] op = "add_important_contact" -> "important_contacts"
      [] op = "add_conversation_context" -> "conversation_context"
\* the latest call was a call of a tool that writes the memory document
Wrote == memCall.op # "none"

\* C29: a write operation of the memory (store_preference, store_user_fact,
\* add_important_contact, add_conversation_context) changes only the entry it
\* was asked to write: every other section and entry of the document the file
\* holds is after the call what it was before, whatever the state of the file
\* at the call, a file that cannot be read included.
C29_WritesChangeOnlyTheirEntry ==
    Wrote =>
        /\ \A s \in Sections \ {SectionOf(memCall.op)} : memory_file.doc[s] = memBefore.doc[s]
        /\ memory_file.doc[SectionOf(memCall.op)]
              = WithEntryOf(memBefore.doc, memCall)[SectionOf(memCall.op)]

\* no two contacts of the document have the same email
NoDuplicateContacts(memory) ==
    \A i, j \in 1..Len(memory.important_contacts) :
        memory.important_contacts[i].email = memory.important_contacts[j].email => i = j
\* the latest call was add_important_contact with an email that the document
\* held at the call
AddedStoredContact ==
    /\ memCall.op = "add_important_contact"
    /\ memBefore.status = "ok"
    /\ HasContact(memBefore.doc, memCall.email)

\* C30: after add_important_contact calls that start from a contact list
\* without duplicates no two stored contacts have the same email; a call with
\* an email that is stored already leaves the contact list as it was, name and
\* relationship included, and reports success.
C30_NoDuplicateContacts ==
    /\ NoDuplicateContacts(memory_file.doc)
    /\ AddedStoredContact =>
          /\ memory_file.doc.important_contacts = memBefore.doc.important_contacts
          /\ memCall.success
\* a stored contact was added again under another name: the list kept the
\* first name
C30_Witness ==
    /\ AddedStoredContact
    /\ \E i \in 1..Len(memory_file.doc.important_contacts) :
          /\ memory_file.doc.important_contacts[i].email = memCall.email
          /\ memory_file.doc.important_contacts[i].name # memCall.name
          /\ memory_file.doc.important_contacts[i].added_at < memCall.timestamp
    /\ \E c \in ContactEmails \ {memCall.email} : HasContact(memory_file.doc, c)

(**************** the claims: the stores under concurrent callers ***********)
\* the document the file of the store holds
StoredDocument(store) == IF store = "memory" THEN memory_file.doc ELSE prefs_file.doc
\* the document holds what the call wrote
Holds(document, call) ==
    CASE call.op = "add_conversation_context" ->
            \E i \in 1..Len(document.conversation_context) :
                document.conversation_context[i]
                    = ContextEntry(call.role, call.content, call.topic, call.timestamp)
      [] call.op = "store_user_fact" ->
            /\ DictHas(document.user_facts, call.key)
            /\ DictGet(document.user_facts, call.key)
                  = [value |-> call.value, stored_at |-> call.timestamp]
      [] call.op = "update_preference" ->
            /\ HasKey(document, call.key)
            /\ GetItem(document, call.key) = JStr(call.value)
\* c and d called the same store with different updates, both loaded before
\* either saved, both saved, and d saved last
Raced(c, d) ==
    /\ c # d
    /\ callers[c].pc = "done" /\ callers[d].pc = "done"
    /\ StoreOf(callers[c].call.op) = StoreOf(callers[d].call.op)
    /\ callers[c].sawSaves = 0 /\ callers[d].sawSaves = 0
    /\ callers[c].order > 0 /\ callers[d].order > callers[c].order
    /\ ~Holds(callers[d].document, callers[c].call)

\* C27: the stores are read-modify-write without locking: when two calls of a
\* store run at the same time and both load before either saves, the file
\* holds the document of the last writer, the update of the other caller is
\* lost, and both calls report success.
C27_LastWriterWins ==
    \A c, d \in Callers :
        Raced(c, d) =>
            /\ StoredDocument(StoreOf(callers[d].call.op)) = callers[d].document
            /\ Holds(StoredDocument(StoreOf(callers[d].call.op)), callers[d].call)
            /\ ~Holds(StoredDocument(StoreOf(callers[c].call.op)), callers[c].call)
            /\ callers[c].call.success /\ callers[d].call.success
\* two callers of the memory raced: a conversation entry was lost to a fact
C27_Witness ==
    \E c, d \in Callers :
        /\ Raced(c, d)
        /\ callers[c].call.op = "add_conversation_context"
        /\ callers[d].call.op = "store_user_fact"
        /\ memory_file = StoredFile(callers[d].document)
        /\ callers[c].call.success
\* two callers of update_preference raced on different keys
C27_PreferencesWitness ==
    \E c, d \in Callers :
        /\ Raced(c, d)
        /\ callers[c].call.op = "update_preference"
        /\ callers[c].call.key # callers[d].call.key
        /\ ~HasKey(prefs_file.doc, callers[c].call.key)
        /\ callers[c].call.success
====
